---------------------------- MODULE Spec2Model ----------------------------
(***************************************************************************)
(* A model of the Ada-subset front end: the lexical analyzer               *)
(* (Modules/LexicalAnalyzer.py), its vocabulary (Modules/Definitions.py),  *)
(* the token record (Modules/Token.py), the recursive descent parser       *)
(* (Modules/RDParser.py) and the web adapter (analysis/views.py).          *)
(*                                                                         *)
(* A source text is a sequence of one-character strings.  Offsets are the  *)
(* 0-based offsets of the Python code: the character at offset p of src is *)
(* src[p + 1].                                                             *)
(***************************************************************************)
EXTENDS Integers, Sequences, FiniteSets, TLC

VARIABLES
    driver,     \* who drives the run: "scan", "parse", "view", "run", "reuse" or "tokens"
    source,     \* the source text handed to the driver
    lexer,      \* the LexicalAnalyzer object and the locals of its analyze call
    parser,     \* the RDParser object and the pending work of its parse call
    response    \* the JSON payload of process_code_view, None before it is sent

vars == <<driver, source, lexer, parser, response>>

\* Python's None; a present value v is the one-element tuple <<v>>.
None == <<>>

Some(v) == <<v>>

\* Python's None where a token type is expected
NoType == "None"

----------------------------------------------------------------------------
(* Characters *)

LowerLetters == <<"a", "b", "c", "d", "e", "f", "g", "h", "i", "j", "k", "l", "m", "n", "o", "p", "q", "r", "s", "t", "u", "v", "w", "x", "y", "z">>

UpperLetters == <<"A", "B", "C", "D", "E", "F", "G", "H", "I", "J", "K", "L", "M", "N", "O", "P", "Q", "R", "S", "T", "U", "V", "W", "X", "Y", "Z">>

Letters == {LowerLetters[i] : i \in 1..26} \cup {UpperLetters[i] : i \in 1..26}

Digits == {"0", "1", "2", "3", "4", "5", "6", "7", "8", "9"}

\* \w of the re module, on ASCII input
WordChars == Letters \cup Digits \cup {"_"}

\* the class [ \t\r\s\n] of the WHITESPACE pattern, on ASCII input
\* (\s adds form feed; vertical tab has no TLA+ escape and is left out)
WhitespaceChars == {" ", "\t", "\r", "\n", "\f"}

upper_table ==
    [c \in {LowerLetters[i] : i \in 1..26} |->
        UpperLetters[CHOOSE i \in 1..26 : LowerLetters[i] = c]]

\* str.upper(), one character
UpperChar(c) == IF c \in DOMAIN upper_table THEN upper_table[c] ELSE c

\* str.upper()
Upper(s) == [i \in 1..Len(s) |-> UpperChar(s[i])]

RECURSIVE Str(_)
\* the text of a character sequence, as one string
Str(s) == IF s = <<>> THEN "" ELSE Head(s) \o Str(Tail(s))

\* source[p], or "" at and past the end (where a pattern cannot match a character)
At(src, p) == IF 0 <= p /\ p < Len(src) THEN src[p + 1] ELSE ""

\* source[a:b]
Slice(src, a, b) == SubSeq(src, a + 1, b)

RECURSIVE Find(_, _, _)
\* str.find(c, from): the first offset >= from holding c, -1 when there is none
Find(src, c, from) ==
    IF from >= Len(src) THEN -1
    ELSE IF src[from + 1] = c THEN from
    ELSE Find(src, c, from + 1)

\* str.count("\n")
CountNewlines(text) == Cardinality({i \in 1..Len(text) : text[i] = "\n"})

\* len(text.split("\n")[-1]): the length of what follows the last newline
LastLineLen(text) ==
    LET nls == {i \in 1..Len(text) : text[i] = "\n"}
    IN  IF nls = {} THEN Len(text)
        ELSE Len(text) - (CHOOSE i \in nls : \A j \in nls : j <= i)

----------------------------------------------------------------------------
(* Definitions.py: token types, reserved words, the pattern table *)

TokenType ==
    {"PROCEDURE", "MODULE", "CONSTANT", "IS", "BEGIN", "END", "IF", "THEN",
     "ELSE", "ELSIF", "WHILE", "LOOP", "FLOAT", "INTEGER", "CHAR", "GET",
     "PUT", "ID", "NUM", "REAL", "LITERAL", "CHAR_LITERAL", "RELOP", "ADDOP",
     "MULOP", "ASSIGN", "LPAREN", "RPAREN", "COMMA", "COLON", "SEMICOLON",
     "DOT", "EOF", "CONCAT", "IN", "OUT", "INOUT", "ABORT", "ABS",
     "ABSTRACT", "ACCEPT", "ACCESS", "ALIASED", "ALL", "AND", "ARRAY", "AT",
     "BODY", "CASE", "DECLARE", "DELAY", "DELTA", "DIGITS", "DO", "ENTRY",
     "EXCEPTION", "EXIT", "FOR", "FUNCTION", "GENERIC", "GOTO", "INTERFACE",
     "LIMITED", "MOD", "NEW", "NOT", "NULL", "OF", "OR", "OTHERS",
     "OVERRIDING", "PACKAGE", "PARALLEL", "PRAGMA", "PRIVATE", "PROTECTED",
     "RAISE", "RANGE", "RECORD", "REM", "RENAMES", "REQUEUE", "RETURN",
     "REVERSE", "SELECT", "SEPARATE", "SOME", "SUBTYPE", "SYNCHRONIZED",
     "TAGGED", "TASK", "TERMINATE", "TYPE", "UNTIL", "USE", "WHEN", "WITH",
     "XOR", "INTEGERT", "REALT", "CHART", "CONST"}

reserved_word_items ==
    {<<"BEGIN", "BEGIN">>, <<"MODULE", "MODULE">>,
     <<"CONSTANT", "CONSTANT">>, <<"PROCEDURE", "PROCEDURE">>,
     <<"IS", "IS">>, <<"IF", "IF">>, <<"THEN", "THEN">>, <<"ELSE", "ELSE">>,
     <<"ELSIF", "ELSIF">>, <<"WHILE", "WHILE">>, <<"LOOP", "LOOP">>,
     <<"FLOAT", "FLOAT">>, <<"INTEGER", "INTEGERT">>, <<"REAL", "REALT">>,
     <<"CHAR", "CHART">>, <<"GET", "GET">>, <<"PUT", "PUT">>,
     <<"END", "END">>, <<"IN", "IN">>, <<"OUT", "OUT">>,
     <<"INOUT", "INOUT">>, <<"ABORT", "ABORT">>, <<"ABS", "ABS">>,
     <<"ABSTRACT", "ABSTRACT">>, <<"ACCEPT", "ACCEPT">>,
     <<"ACCESS", "ACCESS">>, <<"ALIASED", "ALIASED">>, <<"ALL", "ALL">>,
     <<"AND", "AND">>, <<"ARRAY", "ARRAY">>, <<"AT", "AT">>,
     <<"BODY", "BODY">>, <<"CASE", "CASE">>, <<"DECLARE", "DECLARE">>,
     <<"DELAY", "DELAY">>, <<"DELTA", "DELTA">>, <<"DIGITS", "DIGITS">>,
     <<"DO", "DO">>, <<"ENTRY", "ENTRY">>, <<"EXCEPTION", "EXCEPTION">>,
     <<"EXIT", "EXIT">>, <<"FOR", "FOR">>, <<"FUNCTION", "FUNCTION">>,
     <<"GENERIC", "GENERIC">>, <<"GOTO", "GOTO">>,
     <<"INTERFACE", "INTERFACE">>, <<"LIMITED", "LIMITED">>,
     <<"MOD", "MOD">>, <<"NEW", "NEW">>, <<"NOT", "NOT">>,
     <<"NULL", "NULL">>, <<"OF", "OF">>, <<"OR", "OR">>,
     <<"OTHERS", "OTHERS">>, <<"OVERRIDING", "OVERRIDING">>,
     <<"PACKAGE", "PACKAGE">>, <<"PARALLEL", "PARALLEL">>,
     <<"PRAGMA", "PRAGMA">>, <<"PRIVATE", "PRIVATE">>,
     <<"PROTECTED", "PROTECTED">>, <<"RAISE", "RAISE">>,
     <<"RANGE", "RANGE">>, <<"RECORD", "RECORD">>, <<"REM", "REM">>,
     <<"RENAMES", "RENAMES">>, <<"REQUEUE", "REQUEUE">>,
     <<"RETURN", "RETURN">>, <<"REVERSE", "REVERSE">>,
     <<"SELECT", "SELECT">>, <<"SEPARATE", "SEPARATE">>, <<"SOME", "SOME">>,
     <<"SUBTYPE", "SUBTYPE">>, <<"SYNCHRONIZED", "SYNCHRONIZED">>,
     <<"TAGGED", "TAGGED">>, <<"TASK", "TASK">>,
     <<"TERMINATE", "TERMINATE">>, <<"TYPE", "TYPE">>, <<"UNTIL", "UNTIL">>,
     <<"USE", "USE">>, <<"WHEN", "WHEN">>, <<"WITH", "WITH">>,
     <<"XOR", "XOR">>}

\* reserved_words with REAL mapped to the kind FLOAT has
reserved_words_real_as_float ==
    [w \in {it[1] : it \in reserved_word_items} |->
        IF w = "REAL" THEN "FLOAT"
        ELSE (CHOOSE it \in reserved_word_items : it[1] = w)[2]]

reserved_words ==
    [w \in {it[1] : it \in reserved_word_items} |->
        (CHOOSE it \in reserved_word_items : it[1] = w)[2]]

\* is_reserved without the upper-casing of the word
is_reserved_case_sensitive(word) == Str(word) \in DOMAIN reserved_words

\* Definitions.is_reserved
is_reserved(word) == Str(Upper(word)) \in DOMAIN reserved_words

\* get_reserved_token looking the word up as it is written
get_reserved_token_as_written(word) ==
    IF Str(word) \in DOMAIN reserved_words
    THEN reserved_words[Str(word)]
    ELSE NoType

\* Definitions.get_reserved_token
get_reserved_token(word) ==
    IF Str(Upper(word)) \in DOMAIN reserved_words
    THEN reserved_words[Str(Upper(word))]
    ELSE NoType


----------------------------------------------------------------------------
(* The compiled patterns of Definitions.token_patterns.  Each operator is   *)
(* pattern.match(src, pos): the end offset of the match, or -1.             *)

RECURSIVE RunEnd(_, _, _)
\* the end of the longest run of characters of set S starting at offset p
RunEnd(src, p, S) ==
    IF p < Len(src) /\ src[p + 1] \in S THEN RunEnd(src, p + 1, S) ELSE p

RECURSIVE RunEndNot(_, _, _)
\* the end of the longest run of characters outside set S starting at offset p
RunEndNot(src, p, S) ==
    IF p < Len(src) /\ src[p + 1] \notin S THEN RunEndNot(src, p + 1, S) ELSE p

\* $ without re.MULTILINE: at the end, or just before a newline that ends the text
AtDollar(src, p) ==
    \/ p = Len(src)
    \/ p = Len(src) - 1 /\ src[p + 1] = "\n"

\* \b: exactly one of the characters before and after offset p is a word character
WordBoundary(src, p) ==
    (At(src, p - 1) \in WordChars) # (At(src, p) \in WordChars)

\* the literal text w at offset p
LiteralAt(src, p, w) ==
    /\ p + Len(w) <= Len(src)
    /\ Slice(src, p, p + Len(w)) = w

\* \bw\b at offset p
WordAt(src, p, w) ==
    IF WordBoundary(src, p) /\ LiteralAt(src, p, w) /\ WordBoundary(src, p + Len(w))
    THEN p + Len(w) ELSE -1

RECURSIVE FirstMatch(_)
\* a|b|c: the first alternative that matches, in the order written
FirstMatch(ends) ==
    IF ends = <<>> THEN -1
    ELSE IF Head(ends) # -1 THEN Head(ends)
    ELSE FirstMatch(Tail(ends))

\* one literal alternative
Lit(src, p, w) == IF LiteralAt(src, p, w) THEN p + Len(w) ELSE -1

\* "COMMENT": --.*
match_COMMENT(src, p) ==
    IF LiteralAt(src, p, <<"-", "-">>) THEN RunEndNot(src, p + 2, {"\n"}) ELSE -1

\* "WHITESPACE": [ \t\r\s\n]+
match_WHITESPACE(src, p) ==
    IF At(src, p) \in WhitespaceChars THEN RunEnd(src, p, WhitespaceChars) ELSE -1

\* "CONCAT": \&
match_CONCAT(src, p) == Lit(src, p, <<"&">>)

RECURSIVE LiteralBody(_, _)
\* (?:[^"\n]|"")*(?:"|$) from offset q: the greedy star takes one more unit when
\* it can and gives units back, last first, until the closing alternative matches
LiteralBody(src, q) ==
    LET unit == IF q < Len(src) /\ src[q + 1] \notin {"\"", "\n"} THEN q + 1
                ELSE IF LiteralAt(src, q, <<"\"", "\"">>) THEN q + 2
                ELSE -1
        more == IF unit = -1 THEN -1 ELSE LiteralBody(src, unit)
        close == IF At(src, q) = "\"" THEN q + 1
                 ELSE IF AtDollar(src, q) THEN q
                 ELSE -1
    IN  IF more # -1 THEN more ELSE close

\* "LITERAL": "(?:[^"\n]|"")*(?:"|$)
match_LITERAL(src, p) ==
    IF At(src, p) = "\"" THEN LiteralBody(src, p + 1) ELSE -1

\* (?:'|$) at offset q
CharClose(src, q) ==
    IF At(src, q) = "'" THEN q + 1
    ELSE IF AtDollar(src, q) THEN q
    ELSE -1

\* "CHAR_LITERAL": '(?:[^'\n]|'')(?:'|$)
match_CHAR_LITERAL(src, p) ==
    IF At(src, p) # "'" THEN -1
    ELSE LET one == IF p + 1 < Len(src) /\ src[p + 2] \notin {"'", "\n"}
                    THEN CharClose(src, p + 2) ELSE -1
             two == IF LiteralAt(src, p + 1, <<"'", "'">>)
                    THEN CharClose(src, p + 3) ELSE -1
         IN  FirstMatch(<<one, two>>)

\* "NUM": \d+
match_NUM(src, p) ==
    IF At(src, p) \in Digits THEN RunEnd(src, p, Digits) ELSE -1

\* "REAL": \d+\.\d+
match_REAL(src, p) ==
    LET int_end == match_NUM(src, p)
    IN  IF int_end # -1 /\ At(src, int_end) = "." /\ At(src, int_end + 1) \in Digits
        THEN RunEnd(src, int_end + 1, Digits)
        ELSE -1

\* "ID": [a-zA-Z][a-zA-Z0-9_]*
match_ID(src, p) ==
    IF At(src, p) \in Letters THEN RunEnd(src, p + 1, WordChars) ELSE -1

\* "ASSIGN": :=
match_ASSIGN(src, p) == Lit(src, p, <<":", "=">>)

\* "RELOP": <=|>=|/=|=|<|>
match_RELOP(src, p) ==
    FirstMatch(<<Lit(src, p, <<"<", "=">>), Lit(src, p, <<">", "=">>),
                 Lit(src, p, <<"/", "=">>), Lit(src, p, <<"=">>),
                 Lit(src, p, <<"<">>), Lit(src, p, <<">">>)>>)

\* "ADDOP": \+|-|\bor\b
match_ADDOP(src, p) ==
    FirstMatch(<<Lit(src, p, <<"+">>), Lit(src, p, <<"-">>),
                 WordAt(src, p, <<"o", "r">>)>>)

\* "MULOP": \*|/|\brem\b|\bmod\b|\band\b
match_MULOP(src, p) ==
    FirstMatch(<<Lit(src, p, <<"*">>), Lit(src, p, <<"/">>),
                 WordAt(src, p, <<"r", "e", "m">>),
                 WordAt(src, p, <<"m", "o", "d">>),
                 WordAt(src, p, <<"a", "n", "d">>)>>)

\* "LPAREN", "RPAREN", "COMMA", "COLON", "SEMICOLON", "DOT"
match_LPAREN(src, p) == Lit(src, p, <<"(">>)

match_RPAREN(src, p) == Lit(src, p, <<")">>)

match_COMMA(src, p) == Lit(src, p, <<",">>)

match_COLON(src, p) == Lit(src, p, <<":">>)

match_SEMICOLON(src, p) == Lit(src, p, <<";">>)

match_DOT(src, p) == Lit(src, p, <<".">>)

\* the table with NUM written before REAL
token_patterns_num_first ==
    <<"COMMENT", "WHITESPACE", "CONCAT", "LITERAL", "CHAR_LITERAL", "NUM", "REAL",
      "ID", "ASSIGN", "RELOP", "ADDOP", "MULOP", "LPAREN", "RPAREN", "COMMA",
      "COLON", "SEMICOLON", "DOT">>

\* the keys of token_patterns, in the order the dictionary was written
token_patterns ==
    <<"COMMENT", "WHITESPACE", "CONCAT", "LITERAL", "CHAR_LITERAL", "REAL", "NUM",
      "ID", "ASSIGN", "RELOP", "ADDOP", "MULOP", "LPAREN", "RPAREN", "COMMA",
      "COLON", "SEMICOLON", "DOT">>

\* token_patterns[token_name].match(src, p)
pattern_match(token_name, src, p) ==
    CASE token_name = "COMMENT" -> match_COMMENT(src, p)
      [] token_name = "WHITESPACE" -> match_WHITESPACE(src, p)
      [] token_name = "CONCAT" -> match_CONCAT(src, p)
      [] token_name = "LITERAL" -> match_LITERAL(src, p)
      [] token_name = "CHAR_LITERAL" -> match_CHAR_LITERAL(src, p)
      [] token_name = "REAL" -> match_REAL(src, p)
      [] token_name = "NUM" -> match_NUM(src, p)
      [] token_name = "ID" -> match_ID(src, p)
      [] token_name = "ASSIGN" -> match_ASSIGN(src, p)
      [] token_name = "RELOP" -> match_RELOP(src, p)
      [] token_name = "ADDOP" -> match_ADDOP(src, p)
      [] token_name = "MULOP" -> match_MULOP(src, p)
      [] token_name = "LPAREN" -> match_LPAREN(src, p)
      [] token_name = "RPAREN" -> match_RPAREN(src, p)
      [] token_name = "COMMA" -> match_COMMA(src, p)
      [] token_name = "COLON" -> match_COLON(src, p)
      [] token_name = "SEMICOLON" -> match_SEMICOLON(src, p)
      [] token_name = "DOT" -> match_DOT(src, p)

----------------------------------------------------------------------------
(* Token.py *)

\* Token.__init__
Token(token_type, lexeme, line_number, column_number, value, real_value, literal_value) ==
    [token_type |-> token_type, lexeme |-> lexeme,
     line_number |-> line_number, column_number |-> column_number,
     value |-> value, real_value |-> real_value,
     literal_value |-> literal_value]

----------------------------------------------------------------------------
(* LexicalAnalyzer.py *)

\* the longest identifier that is kept
MaxIdLen == 17

\* an entry of LexicalAnalyzer.errors: the message, the text it quotes, the position
LexError(msg, text, line, column) ==
    [msg |-> msg, text |-> text, line |-> line, column |-> column]

\* the line and column after text, as analyze counts them
TextAdvance(text, line, column) ==
    [line |-> line + CountNewlines(text),
     column |-> IF CountNewlines(text) > 0 THEN LastLineLen(text) + 1
                ELSE column + Len(text)]

\* LexicalAnalyzer._skip_whitespace
_skip_whitespace(src, cur) ==
    LET ws_end == match_WHITESPACE(src, cur.pos)
    IN  IF ws_end # -1
        THEN LET adv == TextAdvance(Slice(src, cur.pos, ws_end), cur.line, cur.column)
             IN  [pos |-> ws_end, line |-> adv.line, column |-> adv.column]
        ELSE cur

\* LexicalAnalyzer._skip_comment
_skip_comment(src, cur) ==
    LET c_end == match_COMMENT(src, cur.pos)
    IN  IF c_end # -1
        THEN LET adv == TextAdvance(Slice(src, cur.pos, c_end), cur.line, cur.column)
             IN  [pos |-> c_end, line |-> adv.line, column |-> adv.column]
        ELSE cur

RECURSIVE SkipWhitespaceLoop(_, _)
\* while True: _skip_whitespace until the cursor stays
SkipWhitespaceLoop(src, cur) ==
    LET new == _skip_whitespace(src, cur)
    IN  IF new.pos = cur.pos THEN cur ELSE SkipWhitespaceLoop(src, new)

RECURSIVE SkipCommentLoop(_, _)
\* while True: _skip_comment, and after each comment the whitespace that follows
SkipCommentLoop(src, cur) ==
    LET new == _skip_comment(src, cur)
    IN  IF new.pos = cur.pos THEN cur
        ELSE SkipCommentLoop(src, SkipWhitespaceLoop(src, new))

\* the skipping done once: whitespace, then one comment
SkipBlanks_once(src, cur) == _skip_comment(src, _skip_whitespace(src, cur))

\* the two skipping loops at the head of an iteration of analyze
SkipBlanks(src, cur) == SkipCommentLoop(src, SkipWhitespaceLoop(src, cur))

digit_value ==
    [c \in Digits |->
        CASE c = "0" -> 0 [] c = "1" -> 1 [] c = "2" -> 2 [] c = "3" -> 3
          [] c = "4" -> 4 [] c = "5" -> 5 [] c = "6" -> 6 [] c = "7" -> 7
          [] c = "8" -> 8 [] c = "9" -> 9]

\* the texts int() reads without a ValueError, among those a pattern can match
ValidInt(lexeme) == lexeme # <<>> /\ \A i \in 1..Len(lexeme) : lexeme[i] \in Digits

RECURSIVE IntOf(_)
\* int(lexeme) of a digit string
IntOf(lexeme) ==
    IF lexeme = <<>> THEN 0
    ELSE 10 * IntOf(SubSeq(lexeme, 1, Len(lexeme) - 1)) + digit_value[lexeme[Len(lexeme)]]

\* the texts float() reads without a ValueError: digits, a point, digits
ValidFloat(lexeme) ==
    \E d \in 1..Len(lexeme) :
        /\ lexeme[d] = "."
        /\ ValidInt(SubSeq(lexeme, 1, d - 1))
        /\ ValidInt(SubSeq(lexeme, d + 1, Len(lexeme)))

RECURSIVE StripZeros(_)
\* a digit string without its trailing zeros
StripZeros(ds) ==
    IF ds # <<>> /\ ds[Len(ds)] = "0" THEN StripZeros(SubSeq(ds, 1, Len(ds) - 1))
    ELSE ds

\* float(lexeme) as a decimal: mant * 10^(-scale), with no trailing zero kept
FloatOf(lexeme) ==
    LET d == CHOOSE i \in 1..Len(lexeme) : lexeme[i] = "."
        frac == StripZeros(SubSeq(lexeme, d + 1, Len(lexeme)))
    IN  [mant |-> IntOf(SubSeq(lexeme, 1, d - 1) \o frac), scale |-> Len(frac)]

\* str.replace leaving the doubled q as they are
Replace2_kept(text, q) == text

RECURSIVE Replace2(_, _)
\* str.replace(q + q, q): each doubled q, left to right, becomes one q
Replace2(text, q) ==
    IF text = <<>> THEN <<>>
    ELSE IF Len(text) >= 2 /\ text[1] = q /\ text[2] = q
         THEN <<q>> \o Replace2(SubSeq(text, 3, Len(text)), q)
    ELSE <<text[1]>> \o Replace2(Tail(text), q)

\* str.endswith(c)
EndsWith(text, c) == text # <<>> /\ text[Len(text)] = c

\* what a _process_* method hands back: the token type (None to skip), the decoded
\* values, the errors it appended, and whether it raised
Processed(token_type, value, literal_value, errors, raised) ==
    [token_type |-> token_type, value |-> value, literal_value |-> literal_value,
     errors |-> errors, raised |-> raised]

\* _process_identifier with the length limit off by one
_process_identifier_off_by_one(lexeme, line, column) ==
    IF is_reserved(lexeme)
    THEN Processed(get_reserved_token(lexeme), None, None, <<>>, FALSE)
    ELSE IF Len(lexeme) > MaxIdLen + 1
         THEN Processed(NoType, None, None,
                  <<LexError("Identifier exceeds maximum length", lexeme, line, column)>>,
                  FALSE)
    ELSE Processed("ID", None, None, <<>>, FALSE)

\* LexicalAnalyzer._process_identifier
_process_identifier(lexeme, line, column) ==
    IF is_reserved(lexeme)
    THEN Processed(get_reserved_token(lexeme), None, None, <<>>, FALSE)
    ELSE IF Len(lexeme) > MaxIdLen
         THEN Processed(NoType, None, None,
                  <<LexError("Identifier exceeds maximum length", lexeme, line, column)>>,
                  FALSE)
    ELSE Processed("ID", None, None, <<>>, FALSE)

\* LexicalAnalyzer._process_num
_process_num(stop_on_error, lexeme, line, column) ==
    IF ValidInt(lexeme)
    THEN Processed("NUM", Some(IntOf(lexeme)), None, <<>>, FALSE)
    ELSE Processed("NUM", None, None,
             <<LexError("Invalid number", lexeme, line, column)>>, stop_on_error)

\* LexicalAnalyzer._process_real
_process_real(stop_on_error, lexeme, line, column) ==
    IF ValidFloat(lexeme)
    THEN Processed("REAL", Some(FloatOf(lexeme)), None, <<>>, FALSE)
    ELSE Processed("REAL", None, None,
             <<LexError("Invalid real number", lexeme, line, column)>>, stop_on_error)

\* LexicalAnalyzer._process_literal
_process_literal(stop_on_error, lexeme, line, column) ==
    IF ~EndsWith(lexeme, "\"")
    THEN Processed(NoType, None, None,
             <<LexError("Unterminated string literal", <<>>, line, column)>>,
             stop_on_error)
    ELSE Processed("LITERAL", None,
             Some(Replace2(SubSeq(lexeme, 2, Len(lexeme) - 1), "\"")), <<>>, FALSE)

\* _process_char_literal raising before it has recorded the error
_process_char_literal_raise_first(stop_on_error, lexeme, line, column) ==
    IF ~EndsWith(lexeme, "'")
    THEN Processed("CHAR_LITERAL", None, Some(Tail(lexeme)),
             IF stop_on_error THEN <<>>
             ELSE <<LexError("Unterminated character literal", <<>>, line, column)>>,
             stop_on_error)
    ELSE Processed("CHAR_LITERAL", None,
             Some(Replace2(SubSeq(lexeme, 2, Len(lexeme) - 1), "'")), <<>>, FALSE)

\* LexicalAnalyzer._process_char_literal
_process_char_literal(stop_on_error, lexeme, line, column) ==
    IF ~EndsWith(lexeme, "'")
    THEN Processed("CHAR_LITERAL", None, Some(Tail(lexeme)),
             <<LexError("Unterminated character literal", <<>>, line, column)>>,
             stop_on_error)
    ELSE Processed("CHAR_LITERAL", None,
             Some(Replace2(SubSeq(lexeme, 2, Len(lexeme) - 1), "'")), <<>>, FALSE)

\* what _match_token hands back: outcome "token" (with the token), "SKIP", "None"
\* (no pattern matched) or "raise" (an exception left the method), the cursor
\* after it, and the errors appended to LexicalAnalyzer.errors on the way
Matched(outcome, token, pos, line, column, errors) ==
    [outcome |-> outcome, token |-> token, pos |-> pos, line |-> line,
     column |-> column, errors |-> errors]

\* the check before the LITERAL pattern is tried: an opening quote with no
\* further quote on its line
UnterminatedAhead(src, pos) ==
    /\ At(src, pos) = "\""
    /\ LET next_quote == Find(src, "\"", pos + 1)
           newline_pos == Find(src, "\n", pos)
       IN  next_quote = -1 \/ (newline_pos # -1 /\ next_quote > newline_pos)

\* the unterminated-string check stepping over the newline it stops at
SkipUnterminated_past_newline(src, pos, line, column) ==
    LET newline_pos == Find(src, "\n", pos)
        error == LexError("Unterminated string literal", <<>>, line, column)
    IN  IF newline_pos = -1
        THEN Matched("SKIP", None, Len(src), line, column + (Len(src) - pos), <<error>>)
        ELSE Matched("SKIP", None, newline_pos + 1, line + 1, 1, <<error>>)

\* the unterminated-string check leaving the cursor on the opening quote
SkipUnterminated_cursor_kept(src, pos, line, column) ==
    LET newline_pos == Find(src, "\n", pos)
        error == LexError("Unterminated string literal", <<>>, line, column)
    IN  IF newline_pos = -1
        THEN Matched("SKIP", None, Len(src), line, column + (Len(src) - pos), <<error>>)
        ELSE Matched("SKIP", None, pos, line + 1, 1, <<error>>)

\* the return of the unterminated-string check
SkipUnterminated(src, pos, line, column) ==
    LET newline_pos == Find(src, "\n", pos)
        error == LexError("Unterminated string literal", <<>>, line, column)
    IN  IF newline_pos = -1
        THEN Matched("SKIP", None, Len(src), line, column + (Len(src) - pos), <<error>>)
        ELSE Matched("SKIP", None, newline_pos, line + 1, 1, <<error>>)

\* the kind-specific processing of a lexeme matched by pattern token_name
ProcessLexeme(stop_on_error, token_name, lexeme, line, column) ==
    CASE token_name = "ID" -> _process_identifier(lexeme, line, column)
      [] token_name = "NUM" -> _process_num(stop_on_error, lexeme, line, column)
      [] token_name = "REAL" -> _process_real(stop_on_error, lexeme, line, column)
      [] token_name = "LITERAL" -> _process_literal(stop_on_error, lexeme, line, column)
      [] token_name = "CHAR_LITERAL" ->
            _process_char_literal(stop_on_error, lexeme, line, column)
      [] token_name = "CONCAT" -> Processed("CONCAT", None, None, <<>>, FALSE)
      [] OTHER ->
            Processed(IF token_name \in TokenType THEN token_name ELSE NoType,
                      None, None, <<>>, FALSE)

\* the body of "if match:" in _match_token
TokenFromMatch(stop_on_error, token_name, src, pos, match_end, line, column) ==
    LET lexeme == Slice(src, pos, match_end)
        done == ProcessLexeme(stop_on_error, token_name, lexeme, line, column)
        adv == TextAdvance(lexeme, line, column)
    IN  IF done.raised
        THEN Matched("raise", None, pos, line, column, done.errors)
        ELSE IF token_name \in {"ID", "LITERAL"} /\ done.token_type = NoType
             THEN Matched("SKIP", None, match_end, adv.line, adv.column, done.errors)
        ELSE Matched("token",
                     Token(done.token_type, lexeme, line, column, done.value, None,
                           done.literal_value),
                     match_end, adv.line, adv.column, done.errors)

RECURSIVE MatchFrom(_, _, _, _, _, _)
\* the for loop of _match_token from the i-th pattern on
MatchFrom(i, stop_on_error, src, pos, line, column) ==
    IF i > Len(token_patterns) THEN Matched("None", None, pos, line, column, <<>>)
    ELSE LET token_name == token_patterns[i]
         IN  IF token_name \in {"WHITESPACE", "COMMENT"}
             THEN MatchFrom(i + 1, stop_on_error, src, pos, line, column)
             ELSE IF token_name = "LITERAL" /\ UnterminatedAhead(src, pos)
                  THEN SkipUnterminated(src, pos, line, column)
             ELSE LET match_end == pattern_match(token_name, src, pos)
                  IN  IF match_end # -1
                      THEN TokenFromMatch(stop_on_error, token_name, src, pos,
                                          match_end, line, column)
                      ELSE MatchFrom(i + 1, stop_on_error, src, pos, line, column)

\* LexicalAnalyzer._match_token
_match_token(stop_on_error, src, pos, line, column) ==
    MatchFrom(1, stop_on_error, src, pos, line, column)

\* LexicalAnalyzer.__init__, and the locals of analyze before its loop
LexicalAnalyzer(stop_on_error) ==
    [stop_on_error |-> stop_on_error, errors |-> <<>>, status |-> "active",
     tokens |-> <<>>, pos |-> 0, line |-> 1, column |-> 1]

\* the iteration counting no column for a character it does not recognise
AnalyzeBody_column_kept(lx, src) ==
    LET cur == SkipBlanks(src, [pos |-> lx.pos, line |-> lx.line, column |-> lx.column])
    IN  IF cur.pos >= Len(src)
        THEN [lx EXCEPT !.pos = cur.pos, !.line = cur.line, !.column = cur.column]
        ELSE LET m == _match_token(lx.stop_on_error, src, cur.pos, cur.line, cur.column)
             IN  CASE m.outcome = "raise" ->
                        [lx EXCEPT !.pos = cur.pos, !.line = cur.line,
                                   !.column = cur.column,
                                   !.errors = @ \o m.errors, !.status = "raised"]
                   [] m.outcome = "SKIP" ->
                        [lx EXCEPT !.pos = m.pos, !.line = m.line, !.column = m.column,
                                   !.errors = @ \o m.errors]
                   [] m.outcome = "token" ->
                        [lx EXCEPT !.pos = m.pos, !.line = m.line, !.column = m.column,
                                   !.errors = @ \o m.errors,
                                   !.tokens = Append(@, m.token)]
                   [] m.outcome = "None" ->
                        [lx EXCEPT !.pos = cur.pos + 1, !.line = cur.line,
                                   !.column = cur.column,
                                   !.errors = Append(@,
                                       LexError("Unrecognized character",
                                                <<src[cur.pos + 1]>>, cur.line,
                                                cur.column))]

\* one iteration of the main loop of analyze
AnalyzeBody(lx, src) ==
    LET cur == SkipBlanks(src, [pos |-> lx.pos, line |-> lx.line, column |-> lx.column])
    IN  IF cur.pos >= Len(src)
        THEN [lx EXCEPT !.pos = cur.pos, !.line = cur.line, !.column = cur.column]
        ELSE LET m == _match_token(lx.stop_on_error, src, cur.pos, cur.line, cur.column)
             IN  CASE m.outcome = "raise" ->
                        [lx EXCEPT !.pos = cur.pos, !.line = cur.line,
                                   !.column = cur.column,
                                   !.errors = @ \o m.errors, !.status = "raised"]
                   [] m.outcome = "SKIP" ->
                        [lx EXCEPT !.pos = m.pos, !.line = m.line, !.column = m.column,
                                   !.errors = @ \o m.errors]
                   [] m.outcome = "token" ->
                        [lx EXCEPT !.pos = m.pos, !.line = m.line, !.column = m.column,
                                   !.errors = @ \o m.errors,
                                   !.tokens = Append(@, m.token)]
                   [] m.outcome = "None" ->
                        [lx EXCEPT !.pos = cur.pos + 1, !.line = cur.line,
                                   !.column = cur.column + 1,
                                   !.errors = Append(@,
                                       LexError("Unrecognized character",
                                                <<src[cur.pos + 1]>>, cur.line,
                                                cur.column))]

\* the end of analyze appending EOF only to a list that holds a token
AnalyzeEnd_eof_after_tokens(lx) ==
    [lx EXCEPT !.tokens = IF @ = <<>> THEN @
                          ELSE Append(@, Token("EOF", <<"E", "O", "F">>, lx.line,
                                               lx.column, None, None, None)),
               !.status = "returned"]

\* the end of analyze: the EOF token is appended and the list returned
AnalyzeEnd(lx) ==
    [lx EXCEPT !.tokens = Append(@, Token("EOF", <<"E", "O", "F">>, lx.line,
                                           lx.column, None, None, None)),
               !.status = "returned"]

RECURSIVE AnalyzeRun(_, _)
\* analyze from the state lx to its end
AnalyzeRun(lx, src) ==
    IF lx.status = "raised" THEN lx
    ELSE IF lx.pos < Len(src) THEN AnalyzeRun(AnalyzeBody(lx, src), src)
    ELSE AnalyzeEnd(lx)

\* LexicalAnalyzer.analyze: the whole call
analyze(lx, src) ==
    AnalyzeRun([lx EXCEPT !.status = "active", !.tokens = <<>>, !.pos = 0,
                          !.line = 1, !.column = 1], src)

----------------------------------------------------------------------------
(* Source texts for the scanner: every concatenation of at most MaxChunks   *)
(* pieces of ScanChunks.                                                     *)

MaxChunks == 2

ScanChunks ==
    {<<"o", "r">>,
     <<"O", "R">>,
     <<"m", "o", "d">>,
     <<"a", "n", "d">>,
     <<"r", "e", "m">>,
     <<"x">>,
     <<"I", "n", "t", "e", "g", "e", "r">>,
     <<"a", "b", "c", "d", "e", "f", "g", "h", "i", "j", "k", "l", "m", "n", "o", "p">>,
     <<"a", "b", "c", "d", "e", "f", "g", "h", "i", "j", "k", "l", "m", "n", "o", "p", "q", "r">>,
     <<" ">>,
     <<"\n">>,
     <<"-">>,
     <<"-", "-", " ", "-", "\n">>,
     <<"\"">>,
     <<"\"", "\"">>,
     <<"\"", "a", "\"">>,
     <<"\"", "\n">>,
     <<"'">>,
     <<"'", "x">>,
     <<"1">>,
     <<".", "5">>,
     <<".">>,
     <<">">>,
     <<":">>,
     <<"=">>,
     <<"<">>,
     <<"/">>,
     <<"@">>,
     <<";">>}

RECURSIVE Concats(_, _)
\* the concatenations of at most n members of pieces
Concats(pieces, n) ==
    IF n = 0 THEN {<<>>}
    ELSE LET shorter == Concats(pieces, n - 1)
         IN  shorter \cup {s \o c : s \in shorter, c \in pieces}

ScanSources == Concats(ScanChunks, MaxChunks)

\* no parser has been constructed
NoParser == [status |-> "none"]

----------------------------------------------------------------------------
(* The scanner on its own: analyze, one loop iteration at a time *)

InitScan ==
    /\ driver = "scan"
    /\ source \in ScanSources
    /\ \E stop_on_error \in BOOLEAN : lexer = LexicalAnalyzer(stop_on_error)
    /\ parser = NoParser
    /\ response = None

\* one iteration of "while pos < len(source_code)"
AnalyzeIteration ==
    /\ driver = "scan"
    /\ lexer.status = "active"
    /\ lexer.pos < Len(source)
    /\ lexer' = AnalyzeBody(lexer, source)
    /\ UNCHANGED <<driver, source, parser, response>>

\* the loop is left, the EOF token appended and the list returned
AnalyzeReturn ==
    /\ driver = "scan"
    /\ lexer.status = "active"
    /\ lexer.pos >= Len(source)
    /\ lexer' = AnalyzeEnd(lexer)
    /\ UNCHANGED <<driver, source, parser, response>>

NextScan == AnalyzeIteration \/ AnalyzeReturn

SpecScan == InitScan /\ [][NextScan]_vars

----------------------------------------------------------------------------
(* RDParser.py.  The recursion of the parse methods is kept as a stack of    *)
(* pending instructions: a call pushes the statements of the method's body,  *)
(* a step pops and runs one of them.  Parse tree nodes live in parser.nodes  *)
(* and are named by their index there; 0 stands for no node (None).          *)

\* ParseTreeNode.__init__
ParseTreeNode(name, token) == [name |-> name, token |-> token, children |-> <<>>]

\* a pending statement of a parse method
Instr(op, kind, node, child) == [op |-> op, kind |-> kind, node |-> node, child |-> child]

\* self.match_leaf(kind, node), or self.match(kind) where parseProg builds no tree
MatchI(kind, node) == Instr("match_leaf", kind, node, 0)

PlainMatchI(kind) == Instr("match", kind, 0, 0)

\* child = self.<method>(); if child: node.add_child(child)
CallI(method, node) == Instr("call", method, node, 0)

\* an entry of RDParser.errors: the position of the current token and the message
ParseError(token, msg, expected) ==
    [line |-> token.line_number, column |-> token.column_number, msg |-> msg,
     expected |-> expected, found |-> token.lexeme]

\* RDParser.__init__, and parse() about to call parseProg
RDParser(tokens, stop_on_error, panic_mode_recover, build_parse_tree) ==
    [tokens |-> tokens, current_index |-> 0, current_token |-> tokens[1],
     stop_on_error |-> stop_on_error, panic_mode_recover |-> panic_mode_recover,
     build_parse_tree |-> build_parse_tree, errors |-> <<>>,
     parse_tree_root |-> 0, nodes |-> <<>>,
     stack |-> <<CallI("parseProg", 0), Instr("parse_end", "", 0, 0)>>,
     answers |-> <<>>, status |-> "parsing", success |-> FALSE]

\* what the user may type at the prompt of report_error
UserChoices == {"y", "Y", "n"}

\* user_choice.lower() == 'y'
SaysYes(user_choice) == user_choice \in {"y", "Y"}

\* RDParser.advance
advance(p) ==
    LET index == p.current_index + 1
    IN  [p EXCEPT !.current_index = index,
                  !.current_token =
                      IF index < Len(p.tokens) THEN p.tokens[index + 1]
                      ELSE Token("EOF", <<"E", "O", "F">>, -1, -1, None, None, None)]

\* report_error raising whatever the user answers
report_error_raise_unasked(p, msg, expected, user_choice) ==
    LET q == [p EXCEPT !.errors = Append(@, ParseError(p.current_token, msg, expected))]
    IN  IF p.stop_on_error
        THEN [q EXCEPT !.answers = Append(@, user_choice), !.status = "raised"]
        ELSE q

\* RDParser.report_error; user_choice is what the user types if prompted
report_error(p, msg, expected, user_choice) ==
    LET q == [p EXCEPT !.errors = Append(@, ParseError(p.current_token, msg, expected))]
    IN  IF p.stop_on_error
        THEN [q EXCEPT !.answers = Append(@, user_choice),
                       !.status = IF SaysYes(user_choice) THEN "raised" ELSE @]
        ELSE q

\* the kind match and match_leaf compare with the expected kind
EffectiveType(token) ==
    IF token.token_type = "ID" /\ get_reserved_token(token.lexeme) # NoType
    THEN get_reserved_token(token.lexeme)
    ELSE token.token_type

\* match skipping the token it reports
match_skipping(p, expected_token_type, user_choice) ==
    IF EffectiveType(p.current_token) = expected_token_type
    THEN advance(p)
    ELSE advance(report_error(p, "Expected", expected_token_type, user_choice))

\* RDParser.match
match(p, expected_token_type, user_choice) ==
    IF EffectiveType(p.current_token) = expected_token_type
    THEN advance(p)
    ELSE report_error(p, "Expected", expected_token_type, user_choice)

\* add_child putting the new child in front of the others
add_child_in_front(p, node, child) ==
    [p EXCEPT !.nodes[node].children = <<child>> \o @]

\* ParseTreeNode.add_child, on the nodes of the parser
add_child(p, node, child) ==
    [p EXCEPT !.nodes[node].children = Append(@, child)]

\* a new node is allocated; its name is the index Len(p.nodes) + 1
NewNode(p, name, token) == [p EXCEPT !.nodes = Append(@, ParseTreeNode(name, token))]

\* match_leaf attaching its leaf before it compares the kinds
match_leaf_leaf_first(p, expected_token_type, parent_node, user_choice) ==
    LET q == IF parent_node # 0
             THEN add_child(NewNode(p, expected_token_type, Some(p.current_token)),
                            parent_node, Len(p.nodes) + 1)
             ELSE p
    IN  IF EffectiveType(p.current_token) = expected_token_type
        THEN advance(q)
        ELSE report_error(q, "Expected", expected_token_type, user_choice)

\* match_leaf stepping over the token it reports
match_leaf_skipping(p, expected_token_type, parent_node, user_choice) ==
    IF EffectiveType(p.current_token) = expected_token_type
    THEN IF parent_node # 0
         THEN advance(add_child(NewNode(p, expected_token_type, Some(p.current_token)),
                                parent_node, Len(p.nodes) + 1))
         ELSE advance(p)
    ELSE advance(report_error(p, "Expected", expected_token_type, user_choice))

\* RDParser.match_leaf; a leaf made for no parent is dropped at once
match_leaf(p, expected_token_type, parent_node, user_choice) ==
    IF EffectiveType(p.current_token) = expected_token_type
    THEN IF parent_node # 0
         THEN advance(add_child(NewNode(p, expected_token_type, Some(p.current_token)),
                                parent_node, Len(p.nodes) + 1))
         ELSE advance(p)
    ELSE report_error(p, "Expected", expected_token_type, user_choice)

\* RDParser.panic_recovery: the index at which the skipping loop stops
RECURSIVE PanicSkip(_, _)
PanicSkip(p, sync_set) ==
    IF p.current_token.token_type \notin sync_set /\ p.current_token.token_type # "EOF"
    THEN PanicSkip(advance(p), sync_set)
    ELSE p

\* RDParser.panic_recovery
panic_recovery(p, sync_set) ==
    IF ~p.panic_mode_recover THEN p ELSE PanicSkip(p, sync_set)

\* the statements of a parse method after its node n is made (n = 0: no tree),
\* chosen by the current token as the method's if does
MethodBody(p, method, n) ==
    LET tt == p.current_token.token_type
    IN  CASE method = "parseProg" ->
                IF p.build_parse_tree
                THEN <<MatchI("PROCEDURE", n), MatchI("ID", n), CallI("parseArgs", n),
                       MatchI("IS", n), CallI("parseDeclarativePart", n),
                       CallI("parseProcedures", n), MatchI("BEGIN", n),
                       CallI("parseSeqOfStatements", n), MatchI("END", n),
                       MatchI("ID", n), MatchI("SEMICOLON", n)>>
                ELSE <<PlainMatchI("PROCEDURE"), PlainMatchI("ID"), CallI("parseArgs", n),
                       PlainMatchI("IS"), CallI("parseDeclarativePart", n),
                       CallI("parseProcedures", n), PlainMatchI("BEGIN"),
                       CallI("parseSeqOfStatements", n), PlainMatchI("END"),
                       PlainMatchI("ID"), PlainMatchI("SEMICOLON")>>
          [] method = "parseDeclarativePart" ->
                IF tt = "ID"
                THEN <<CallI("parseIdentifierList", n), MatchI("COLON", n),
                       CallI("parseTypeMark", n), MatchI("SEMICOLON", n),
                       CallI("parseDeclarativePart", n)>>
                ELSE <<Instr("epsilon", "", n, 0)>>
          [] method = "parseIdentifierList" ->
                <<MatchI("ID", n), Instr("while_comma", "", n, 0)>>
          [] method = "parseTypeMark" ->
                IF tt \in {"INTEGERT", "REALT", "CHART"} THEN <<MatchI(tt, n)>>
                ELSE IF tt = "CONSTANT"
                     THEN <<MatchI("CONSTANT", n), MatchI("ASSIGN", n),
                            CallI("parseValue", n)>>
                ELSE <<Instr("type_error", "", n, 0)>>
          [] method = "parseValue" -> <<MatchI("NUM", n)>>
          [] method = "parseProcedures" ->
                IF tt = "PROCEDURE"
                THEN <<CallI("parseProg", n), CallI("parseProcedures", n)>>
                ELSE <<Instr("epsilon", "", n, 0)>>
          [] method = "parseArgs" ->
                IF tt = "LPAREN"
                THEN <<MatchI("LPAREN", n), CallI("parseArgList", n), MatchI("RPAREN", n)>>
                ELSE <<Instr("epsilon", "", n, 0)>>
          [] method = "parseArgList" ->
                <<CallI("parseMode", n), CallI("parseIdentifierList", n),
                  MatchI("COLON", n), CallI("parseTypeMark", n),
                  CallI("parseMoreArgs", n)>>
          [] method = "parseMoreArgs" ->
                IF tt = "SEMICOLON"
                THEN <<MatchI("SEMICOLON", n), CallI("parseArgList", n)>>
                ELSE <<Instr("epsilon", "", n, 0)>>
          [] method = "parseMode" ->
                IF tt \in {"IN", "OUT", "INOUT"} THEN <<MatchI(tt, n)>>
                ELSE <<Instr("epsilon", "", n, 0)>>
          [] method = "parseSeqOfStatements" -> <<Instr("epsilon", "", n, 0)>>

\* the name a parse method gives its node
NodeName(method) ==
    CASE method = "parseProg" -> "Prog"
      [] method = "parseDeclarativePart" -> "DeclarativePart"
      [] method = "parseIdentifierList" -> "IdentifierList"
      [] method = "parseTypeMark" -> "TypeMark"
      [] method = "parseValue" -> "Value"
      [] method = "parseProcedures" -> "Procedures"
      [] method = "parseArgs" -> "Args"
      [] method = "parseArgList" -> "ArgList"
      [] method = "parseMoreArgs" -> "MoreArgs"
      [] method = "parseMode" -> "Mode"
      [] method = "parseSeqOfStatements" -> "SeqOfStatements"

\* statements pushed in front of the pending ones
Push(p, instrs) == [p EXCEPT !.stack = instrs \o @]

\* entry into a parse method called with the node `parent` to attach to: the
\* method's node is made when a tree is built, and attached once the body is done
CallMethod(p, method, parent) ==
    IF p.build_parse_tree
    THEN LET n == Len(p.nodes) + 1
             q == NewNode(p, NodeName(method), None)
         IN  Push(q, MethodBody(p, method, n) \o
                     (IF parent # 0 THEN <<Instr("add_child", "", parent, n)>> ELSE <<>>))
    ELSE Push(p, MethodBody(p, method, 0))

\* the empty alternative of a method: an ε leaf when a tree is built
Epsilon(p, node) ==
    IF p.build_parse_tree
    THEN add_child(NewNode(p, "ε", None), node, Len(p.nodes) + 1)
    ELSE p

\* the loop of parseIdentifierList
WhileComma(p, node) ==
    IF p.current_token.token_type = "COMMA"
    THEN Push(p, <<MatchI("COMMA", node), MatchI("ID", node),
                   Instr("while_comma", "", node, 0)>>)
    ELSE p

\* parse not looking for tokens after the program
ParseEnd_unchecked(p, user_choice) ==
    [p EXCEPT !.parse_tree_root = IF p.build_parse_tree THEN 1 ELSE 0,
              !.status = "returned", !.success = Len(p.errors) = 0]

\* ParseEnd reporting every token left before EOF, not only the current one
ParseEnd_each_extra(p, user_choice) ==
    LET q == [p EXCEPT !.parse_tree_root = IF p.build_parse_tree THEN 1 ELSE 0]
        left == {i \in (q.current_index + 2)..Len(q.tokens) :
                     q.tokens[i].token_type # "EOF"}
        rest == [k \in 1..Cardinality(left) |->
                     ParseError(q.tokens[q.current_index + 1 + k],
                                "Extra tokens found after program end.", "")]
        r == IF q.current_token.token_type # "EOF"
             THEN [report_error(q, "Extra tokens found after program end.", "", user_choice)
                       EXCEPT !.errors = @ \o rest]
             ELSE q
    IN  IF r.status = "raised" THEN r
        ELSE [r EXCEPT !.status = "returned", !.success = Len(r.errors) = 0]

\* RDParser.parse after parseProg has returned
ParseEnd(p, user_choice) ==
    LET q == [p EXCEPT !.parse_tree_root = IF p.build_parse_tree THEN 1 ELSE 0]
        r == IF q.current_token.token_type # "EOF"
             THEN report_error(q, "Extra tokens found after program end.", "", user_choice)
             ELSE q
    IN  IF r.status = "raised" THEN r
        ELSE [r EXCEPT !.status = "returned", !.success = Len(r.errors) = 0]

\* one pending statement is run
Exec(p, user_choice) ==
    LET i == Head(p.stack)
        q == [p EXCEPT !.stack = Tail(@)]
    IN  CASE i.op = "match" -> match(q, i.kind, user_choice)
          [] i.op = "match_leaf" -> match_leaf(q, i.kind, i.node, user_choice)
          [] i.op = "call" -> CallMethod(q, i.kind, i.node)
          [] i.op = "epsilon" -> Epsilon(q, i.node)
          [] i.op = "while_comma" -> WhileComma(q, i.node)
          [] i.op = "type_error" ->
                report_error(q, "Expected a type (INTEGERT, REALT, CHART) or a constant declaration.",
                             "", user_choice)
          [] i.op = "add_child" -> add_child(q, i.node, i.child)
          [] i.op = "parse_end" -> ParseEnd(q, user_choice)

\* the returns of finished methods: their nodes are attached to the callers'
RECURSIVE Returns(_)
Returns(p) ==
    IF p.status = "parsing" /\ p.stack # <<>> /\ Head(p.stack).op = "add_child"
    THEN Returns(Exec(p, "n"))
    ELSE p

\* a step of the parser; an exception of report_error discards the pending statements
ParserStep(p, user_choice) ==
    LET q == Exec(p, user_choice)
    IN  IF q.status = "raised" THEN [q EXCEPT !.stack = <<>>] ELSE Returns(q)

\* RDParser.parse as a whole, the user typing `answers` at the prompts in turn
\* and "n" after that
RECURSIVE parse(_, _)
parse(p, answers) ==
    IF p.status # "parsing" THEN p
    ELSE LET q == ParserStep(p, IF answers = <<>> THEN "n" ELSE Head(answers))
         IN  parse(q, IF Len(q.answers) > Len(p.answers) /\ answers # <<>>
                      THEN Tail(answers) ELSE answers)

----------------------------------------------------------------------------
(* views.py *)

\* str.strip(): the text without its leading and trailing whitespace
RECURSIVE Strip(_)
Strip(text) ==
    IF text # <<>> /\ text[1] \in WhitespaceChars THEN Strip(Tail(text))
    ELSE IF text # <<>> /\ text[Len(text)] \in WhitespaceChars
         THEN Strip(SubSeq(text, 1, Len(text) - 1))
    ELSE text

\* generate_parse_tree_text: the pieces of the text, in order; "+--" and "|--"
\* stand for the two box-drawing connectors and "|   " for the bar prefix
RECURSIVE generate_parse_tree_text(_, _, _, _), ChildrenText(_, _, _, _)
generate_parse_tree_text(p, node, prefix, is_last) ==
    LET n == p.nodes[node]
        line == prefix \o <<IF is_last THEN "+--" ELSE "|--", " ", n.name>>
                \o (IF n.token # None THEN <<" (", Str(n.token[1].lexeme), ")">> ELSE <<>>)
                \o <<"\n">>
        new_prefix == prefix \o <<IF is_last THEN "    " ELSE "|   ">>
    IN  line \o ChildrenText(p, node, new_prefix, 1)

\* the loop of generate_parse_tree_text over the children from the i-th on
ChildrenText(p, node, new_prefix, i) ==
    LET child_count == Len(p.nodes[node].children)
    IN  IF i > child_count THEN <<>>
        ELSE generate_parse_tree_text(p, p.nodes[node].children[i], new_prefix, i = child_count)
             \o ChildrenText(p, node, new_prefix, i + 1)

\* the JSON body and status of a response
JsonResponse(tokens, parse_tree, errors, success, status) ==
    [tokens |-> tokens, parse_tree |-> parse_tree, errors |-> errors,
     success |-> success, status |-> status]

\* PrepareResults with the parser's errors put before the scanner's
PrepareResults_parser_first(source_code, lx, ps) ==
    LET tokens_list == [i \in 1..Len(lx.tokens) |->
                            <<lx.tokens[i].token_type, lx.tokens[i].lexeme>>]
        errors_list == [i \in 1..Len(ps.errors) |-> [phase |-> "parser", error |-> ps.errors[i]]]
                       \o [i \in 1..Len(lx.errors) |-> [phase |-> "lexer", error |-> lx.errors[i]]]
        parse_tree_text == IF ps.parse_tree_root # 0
                           THEN generate_parse_tree_text(ps, ps.parse_tree_root, <<>>, TRUE)
                           ELSE <<>>
    IN  [source_code |-> source_code, lexer |-> lx, parser |-> ps,
         response |-> JsonResponse(tokens_list, parse_tree_text, errors_list,
                                   ps.success, 200)]

\* process_code_view from step 5 on: the response made of what the scanner lx
\* and the parser ps have left
PrepareResults(source_code, lx, ps) ==
    LET tokens_list == [i \in 1..Len(lx.tokens) |->
                            <<lx.tokens[i].token_type, lx.tokens[i].lexeme>>]
        errors_list == [i \in 1..Len(lx.errors) |-> [phase |-> "lexer", error |-> lx.errors[i]]]
                       \o [i \in 1..Len(ps.errors) |-> [phase |-> "parser", error |-> ps.errors[i]]]
        parse_tree_text == IF ps.parse_tree_root # 0
                           THEN generate_parse_tree_text(ps, ps.parse_tree_root, <<>>, TRUE)
                           ELSE <<>>
    IN  [source_code |-> source_code, lexer |-> lx, parser |-> ps,
         response |-> JsonResponse(tokens_list, parse_tree_text, errors_list,
                                   ps.success, 200)]

\* process_code_view, step 4: the parser is made and run on the scanner's tokens
RunParsing(source_code, lx) ==
    PrepareResults(source_code, lx, parse(RDParser(lx.tokens, FALSE, FALSE, TRUE), <<>>))

\* process_code_view once the text to analyse is settled
RunAnalysis(source_code) ==
    IF source_code = <<>>
    THEN [source_code |-> source_code, lexer |-> LexicalAnalyzer(FALSE), parser |-> NoParser,
          response |-> JsonResponse(<<>>, <<>>, <<"No code provided.">>, FALSE, 200)]
    ELSE RunParsing(source_code, analyze(LexicalAnalyzer(FALSE), source_code))

\* the text process_code_view analyses: the posted text stripped, or the
\* uploaded file (None: no file) where that is empty
SourceCode(ada_code, ada_file) ==
    IF Strip(ada_code) = <<>> /\ ada_file # None THEN ada_file[1] ELSE Strip(ada_code)

\* process_code_view: the analysed text, the scanner and parser it ran, and
\* its response
process_code_view(ada_code, ada_file) == RunAnalysis(SourceCode(ada_code, ada_file))

----------------------------------------------------------------------------
(* Inputs of the parser: texts put together from at most MaxFrags fragments  *)
(* of a program                                                              *)

MaxFrags == 3

\* procedure P is 
FragHeader ==
    <<"p", "r", "o", "c", "e", "d", "u", "r", "e", " ", "P", " ", "i", "s",
      " ">>

\* procedure P (in x, y : integer; out z : constant := 1) is 
FragHeaderArgs ==
    <<"p", "r", "o", "c", "e", "d", "u", "r", "e", " ", "P", " ", "(", "i",
      "n", " ", "x", ",", " ", "y", " ", ":", " ", "i", "n", "t", "e", "g",
      "e", "r", ";", " ", "o", "u", "t", " ", "z", " ", ":", " ", "c", "o",
      "n", "s", "t", "a", "n", "t", " ", ":", "=", " ", "1", ")", " ", "i",
      "s", " ">>

\* a, b : real;\n
FragDeclaration ==
    <<"a", ",", " ", "b", " ", ":", " ", "r", "e", "a", "l", ";", "\n">>

\* begin end Q;
FragBody ==
    <<"b", "e", "g", "i", "n", " ", "e", "n", "d", " ", "Q", ";">>

\* PROCEDURE Q IS BEGIN END Q;\n
FragNested ==
    <<"P", "R", "O", "C", "E", "D", "U", "R", "E", " ", "Q", " ", "I", "S",
      " ", "B", "E", "G", "I", "N", " ", "E", "N", "D", " ", "Q", ";", "\n">>

\* @
FragUnknown ==
    <<"@">>

\* x 
FragName ==
    <<"x", " ">>

ParseFrags ==
    {FragHeader, FragHeaderArgs, FragDeclaration, FragBody, FragNested,
     FragUnknown, FragName}

ParseSources == Concats(ParseFrags, MaxFrags)

\* the files a request may carry besides its text
UploadedFiles == {None, Some(<<>>), Some(FragHeader \o FragBody)}

----------------------------------------------------------------------------
(* The parser driven by a caller of its own choice of flags, one statement   *)
(* at a time, and the view handling a request                                *)

InitParse ==
    /\ driver \in {"parse", "view"}
    /\ source \in ParseSources
    /\ lexer = LexicalAnalyzer(FALSE)
    /\ parser = NoParser
    /\ response = None

\* tokens = lexer.analyze(source)
Analyze ==
    /\ driver = "parse"
    /\ lexer.status = "active"
    /\ lexer' = analyze(lexer, source)
    /\ UNCHANGED <<driver, source, parser, response>>

\* parser = RDParser(tokens, defs, ...) and parser.parse() up to its call of parseProg
NewParser ==
    /\ driver = "parse"
    /\ lexer.status = "returned"
    /\ parser.status = "none"
    /\ \E stop_on_error \in BOOLEAN, panic_mode_recover \in BOOLEAN, build_parse_tree \in BOOLEAN :
           parser' = RDParser(lexer.tokens, stop_on_error, panic_mode_recover, build_parse_tree)
    /\ UNCHANGED <<driver, source, lexer, response>>

\* the next statement of the parse; the user answers the prompt if there is one
ParseStep ==
    /\ driver = "parse"
    /\ parser.status = "parsing"
    /\ \E user_choice \in (IF parser.stop_on_error THEN UserChoices ELSE {"n"}) :
           parser' = ParserStep(parser, user_choice)
    /\ UNCHANGED <<driver, source, lexer, response>>

\* the state the view leaves behind
Handled(r) ==
    /\ source' = r.source_code
    /\ lexer' = r.lexer
    /\ parser' = r.parser
    /\ response' = Some(r.response)

\* a request with the text `source` and any of the files
ProcessCodeView ==
    /\ driver = "view"
    /\ response = None
    /\ \E ada_file \in UploadedFiles : Handled(process_code_view(source, ada_file))
    /\ UNCHANGED driver

NextParse == Analyze \/ NewParser \/ ParseStep \/ ProcessCodeView

SpecParse == InitParse /\ [][NextParse]_vars

----------------------------------------------------------------------------
(* process_code_view statement by statement: the scanner's loop, then the    *)
(* parser, then the response, on a text that has been stripped.  Each phase  *)
(* runs on once it has begun, so the steps are taken fairly.                 *)

MaxRunFrags == 2

\* or 
FragOperator ==
    <<"o", "r", " ">>

\* Mod 
FragOperatorMixed ==
    <<"M", "o", "d", " ">>

\* "a\n
FragOpenString ==
    <<"\"", "a", "\n">>

\* abcdefghijklmnopqr 
FragLongName ==
    <<"a", "b", "c", "d", "e", "f", "g", "h", "i", "j", "k", "l", "m", "n",
      "o", "p", "q", "r", " ">>

\* -- c\n
FragComment ==
    <<"-", "-", " ", "c", "\n">>

RunFrags ==
    ParseFrags \cup {FragOperator, FragOperatorMixed, FragOpenString, FragLongName,
                     FragComment}

RunSources == {Strip(text) : text \in Concats(RunFrags, MaxRunFrags)}

InitRun ==
    /\ driver = "run"
    /\ source \in RunSources
    /\ lexer = LexicalAnalyzer(FALSE)
    /\ parser = NoParser
    /\ response = None

\* no text is left to analyse
RunNoCode ==
    /\ driver = "run"
    /\ response = None
    /\ source = <<>>
    /\ response' = Some(RunAnalysis(source).response)
    /\ UNCHANGED <<driver, source, lexer, parser>>

\* lexer.analyze: an iteration of the main loop
RunAnalyzeIteration ==
    /\ driver = "run"
    /\ source # <<>>
    /\ lexer.status = "active"
    /\ lexer.pos < Len(source)
    /\ lexer' = AnalyzeBody(lexer, source)
    /\ UNCHANGED <<driver, source, parser, response>>

\* lexer.analyze: the EOF token and the return
RunAnalyzeReturn ==
    /\ driver = "run"
    /\ source # <<>>
    /\ lexer.status = "active"
    /\ lexer.pos >= Len(source)
    /\ lexer' = AnalyzeEnd(lexer)
    /\ UNCHANGED <<driver, source, parser, response>>

\* parser = RDParser(tokens, defs, False, False, True) and parse() entered
RunNewParser ==
    /\ driver = "run"
    /\ lexer.status = "returned"
    /\ parser.status = "none"
    /\ parser' = RDParser(lexer.tokens, FALSE, FALSE, TRUE)
    /\ UNCHANGED <<driver, source, lexer, response>>

\* parser.parse(): the next statement
RunParseStep ==
    /\ driver = "run"
    /\ parser.status = "parsing"
    /\ parser' = ParserStep(parser, "n")
    /\ UNCHANGED <<driver, source, lexer, response>>

\* the results are prepared and the response returned
RunRespond ==
    /\ driver = "run"
    /\ parser.status = "returned"
    /\ response = None
    /\ response' = Some(PrepareResults(source, lexer, parser).response)
    /\ UNCHANGED <<driver, source, lexer, parser>>

NextRun ==
    \/ RunNoCode
    \/ RunAnalyzeIteration
    \/ RunAnalyzeReturn
    \/ RunNewParser
    \/ RunParseStep
    \/ RunRespond

\* an iteration of the main loop is pending and changes the scanner's state
AnalyzeIterationEnabled ==
    /\ driver = "run"
    /\ source # <<>>
    /\ lexer.status = "active"
    /\ lexer.pos < Len(source)
    /\ AnalyzeBody(lexer, source) # lexer

\* every statement that can run does run: weak fairness of each step, the one
\* of the scanner's loop with its enabling condition written out
SpecRun ==
    /\ InitRun
    /\ [][NextRun]_vars
    /\ WF_vars(RunNoCode)
    /\ []<>(~AnalyzeIterationEnabled) \/ []<><<RunAnalyzeIteration>>_vars
    /\ WF_vars(RunAnalyzeReturn)
    /\ WF_vars(RunNewParser)
    /\ WF_vars(RunParseStep)
    /\ WF_vars(RunRespond)

----------------------------------------------------------------------------
(* One LexicalAnalyzer object whose analyze is called several times: the     *)
(* locals of analyze start afresh at each call, self.errors is the object's. *)
(* response is what the caller has kept of the calls that are over.          *)

MaxCalls == 2

ReuseSources == Concats(ScanChunks, 1)

InitReuse ==
    /\ driver = "reuse"
    /\ source \in ReuseSources
    /\ \E stop_on_error \in BOOLEAN : lexer = LexicalAnalyzer(stop_on_error)
    /\ parser = NoParser
    /\ response = <<>>

\* one iteration of "while pos < len(source_code)"
ReuseIteration ==
    /\ driver = "reuse"
    /\ lexer.status = "active"
    /\ lexer.pos < Len(source)
    /\ lexer' = AnalyzeBody(lexer, source)
    /\ UNCHANGED <<driver, source, parser, response>>

\* the loop is left, the EOF token appended and the list returned
ReuseReturn ==
    /\ driver = "reuse"
    /\ lexer.status = "active"
    /\ lexer.pos >= Len(source)
    /\ lexer' = AnalyzeEnd(lexer)
    /\ UNCHANGED <<driver, source, parser, response>>

\* analyze is called again on the same object: tokens, pos, line and column
\* are set anew, self.errors is as the earlier calls left it
ReuseAnalyze ==
    /\ driver = "reuse"
    /\ lexer.status \in {"returned", "raised"}
    /\ Len(response) + 1 < MaxCalls
    /\ response' = Append(response, [source |-> source, status |-> lexer.status,
                                     tokens |-> lexer.tokens, errors |-> lexer.errors])
    /\ source' \in ReuseSources
    /\ lexer' = [lexer EXCEPT !.status = "active", !.tokens = <<>>, !.pos = 0,
                              !.line = 1, !.column = 1]
    /\ UNCHANGED <<driver, parser>>

NextReuse == ReuseIteration \/ ReuseReturn \/ ReuseAnalyze

SpecReuse == InitReuse /\ [][NextReuse]_vars

----------------------------------------------------------------------------
(* The parser constructed by a caller on a token list of its own making,     *)
(* RDParser(tokens, defs, ...), with no scanner before it. `response` keeps   *)
(* the parse methods entered so far, each with the cursor it was entered at.  *)

MaxTokenFrags == 2
MaxEntered == 16

\* Token(token_type, lexeme, line, column) for the k-th token of a list
Positioned(kinds) ==
    [k \in 1..Len(kinds) |-> Token(kinds[k][1], kinds[k][2], 1, k, None, None, None)]

TokenFrags ==
    {<<<<"PROCEDURE", <<"p", "r", "o", "c", "e", "d", "u", "r", "e">>>>,
       <<"ID", <<"a">>>>, <<"IS", <<"i", "s">>>>>>,
     <<<<"ID", <<"i", "s">>>>>>,
     <<<<"ID", <<"x">>>>, <<"COLON", <<":">>>>,
       <<"INTEGERT", <<"i", "n", "t", "e", "g", "e", "r">>>>, <<"SEMICOLON", <<";">>>>>>,
     <<<<"ID", <<"x">>>>, <<"COMMA", <<",">>>>, <<"ID", <<"e", "n", "d">>>>>>,
     <<<<"BEGIN", <<"b", "e", "g", "i", "n">>>>, <<"END", <<"e", "n", "d">>>>,
       <<"ID", <<"a">>>>, <<"SEMICOLON", <<";">>>>>>,
     <<<<"PROCEDURE", <<"p", "r", "o", "c", "e", "d", "u", "r", "e">>>>,
       <<"ID", <<"a">>>>, <<"LPAREN", <<"(">>>>, <<"ID", <<"x">>>>, <<"COLON", <<":">>>>,
       <<"INTEGERT", <<"i", "n", "t", "e", "g", "e", "r">>>>, <<"SEMICOLON", <<";">>>>>>,
     <<<<"SEMICOLON", <<";">>>>>>}

\* the token lists handed to the parser: some fragments and one EOF token
TokenLists ==
    {Positioned(kinds \o <<<<"EOF", <<"E", "O", "F">>>>>>) :
         kinds \in Concats(TokenFrags, MaxTokenFrags)}

EnteredCall(method, current_index) == [method |-> method, current_index |-> current_index]

\* parser = RDParser(tokens, defs, ...), parse() about to call parseProg
InitTokens ==
    /\ driver = "tokens"
    /\ source = <<>>
    /\ lexer = LexicalAnalyzer(FALSE)
    /\ \E tokens \in TokenLists, stop_on_error \in BOOLEAN, panic_mode_recover \in BOOLEAN,
          build_parse_tree \in BOOLEAN :
           parser = RDParser(tokens, stop_on_error, panic_mode_recover, build_parse_tree)
    /\ response = <<>>

\* the next statement of the parse; the entry into a parse method is noted
TokensParseStep ==
    /\ driver = "tokens"
    /\ parser.status = "parsing"
    /\ Len(response) < MaxEntered
    /\ \E user_choice \in (IF parser.stop_on_error THEN UserChoices ELSE {"n"}) :
           parser' = ParserStep(parser, user_choice)
    /\ response' = IF Head(parser.stack).op = "call"
                   THEN Append(response, EnteredCall(Head(parser.stack).kind,
                                                     parser.current_index))
                   ELSE response
    /\ UNCHANGED <<driver, source, lexer>>

NextTokens == TokensParseStep

SpecTokens == InitTokens /\ [][NextTokens]_vars

----------------------------------------------------------------------------
(* The grammar the parser is written for, as a recogniser: each nonterminal  *)
(* takes the set of positions a derivation may start at in the sequence ks   *)
(* of token kinds and gives the set of positions it may end at.              *)

\* a terminal of kind k
Term(ks, k, S) == {j + 1 : j \in {i \in S : i < Len(ks) /\ ks[i + 1] = k}}

RECURSIVE G_Prog(_, _), G_DeclarativePart(_, _), G_MoreIdentifiers(_, _)
RECURSIVE G_Procedures(_, _), G_ArgList(_, _), G_MoreArgs(_, _)

\* IdentifierList -> idt | IdentifierList , idt: the identifiers after the first
G_MoreIdentifiers(ks, S) ==
    IF S = {} THEN {}
    ELSE S \cup G_MoreIdentifiers(ks, Term(ks, "ID", Term(ks, "COMMA", S)))

\* IdentifierList -> idt | IdentifierList , idt
G_IdentifierList(ks, S) == G_MoreIdentifiers(ks, Term(ks, "ID", S))

\* Value -> NumericalLiteral
G_Value(ks, S) == Term(ks, "NUM", S)

\* TypeMark -> integert | realt | chart | const assignop Value
G_TypeMark(ks, S) ==
    Term(ks, "INTEGERT", S) \cup Term(ks, "REALT", S) \cup Term(ks, "CHART", S)
    \cup G_Value(ks, Term(ks, "ASSIGN", Term(ks, "CONSTANT", S)))

\* DeclarativePart -> IdentifierList : TypeMark ; DeclarativePart | ε
G_DeclarativePart(ks, S) ==
    IF S = {} THEN {}
    ELSE S \cup G_DeclarativePart(ks,
                    Term(ks, "SEMICOLON", G_TypeMark(ks, Term(ks, "COLON", G_IdentifierList(ks, S)))))

\* Mode -> in | out | inout | ε
G_Mode(ks, S) == S \cup Term(ks, "IN", S) \cup Term(ks, "OUT", S) \cup Term(ks, "INOUT", S)

\* ArgList -> Mode IdentifierList : TypeMark MoreArgs
G_ArgList(ks, S) ==
    IF S = {} THEN {}
    ELSE G_MoreArgs(ks, G_TypeMark(ks, Term(ks, "COLON", G_IdentifierList(ks, G_Mode(ks, S)))))

\* MoreArgs -> ; ArgList | ε
G_MoreArgs(ks, S) ==
    IF S = {} THEN {} ELSE S \cup G_ArgList(ks, Term(ks, "SEMICOLON", S))

\* Args -> ( ArgList ) | ε
G_Args(ks, S) == S \cup Term(ks, "RPAREN", G_ArgList(ks, Term(ks, "LPAREN", S)))

\* SeqOfStatements -> ε
G_SeqOfStatements(ks, S) == S

\* Procedures -> Prog Procedures | ε
G_Procedures(ks, S) ==
    IF S = {} THEN {} ELSE S \cup G_Procedures(ks, G_Prog(ks, S))

\* Prog -> procedure idt Args is DeclarativePart Procedures begin SeqOfStatements end idt ;
G_Prog(ks, S) ==
    IF S = {} THEN {}
    ELSE Term(ks, "SEMICOLON", Term(ks, "ID", Term(ks, "END",
            G_SeqOfStatements(ks, Term(ks, "BEGIN",
                G_Procedures(ks, G_DeclarativePart(ks, Term(ks, "IS",
                    G_Args(ks, Term(ks, "ID", Term(ks, "PROCEDURE", S)))))))))))

\* the sequence of kinds is derivable from Prog
InLanguage(ks) == Len(ks) \in G_Prog(ks, {0})

\* the kinds of a token list without its final EOF
KindsOf(tokens) == [i \in 1..(Len(tokens) - 1) |-> tokens[i].token_type]

----------------------------------------------------------------------------
(* Claims about the scanner *)

\* the cursor at which the current iteration of analyze tries to match a token
MatchCursor ==
    SkipBlanks(source, [pos |-> lexer.pos, line |-> lexer.line, column |-> lexer.column])

\* the current iteration reaches _match_token
AtMatch ==
    /\ lexer.status = "active"
    /\ lexer.pos < Len(source)
    /\ MatchCursor.pos < Len(source)

\* the word at the match cursor: what the ID pattern matches there
WordAtCursor ==
    Slice(source, MatchCursor.pos, RunEnd(source, MatchCursor.pos + 1, WordChars))

\* the ID pattern is the one that matches at the match cursor
AtWord == AtMatch /\ At(source, MatchCursor.pos) \in Letters

\* C1: the token list analyze returns is never empty, its last token has kind
\* EOF and no earlier token has; without stop_on_error analyze always returns.
C1_Terminator ==
    /\ lexer.status = "returned" =>
          /\ lexer.tokens # <<>>
          /\ lexer.tokens[Len(lexer.tokens)].token_type = "EOF"
          /\ \A i \in 1..(Len(lexer.tokens) - 1) : lexer.tokens[i].token_type # "EOF"
    /\ lexer.status = "active" =>
          \A i \in 1..Len(lexer.tokens) : lexer.tokens[i].token_type # "EOF"
    /\ lexer.status = "raised" => lexer.stop_on_error

\* analyze has returned the list of a source with lexical errors
C1_Witness ==
    /\ lexer.status = "returned"
    /\ lexer.errors # <<>>
    /\ Len(lexer.tokens) >= 2

\* C2: a standalone word or is given kind ADDOP, and rem, mod, and kind MULOP.
C2_OperatorKinds ==
    \A i \in 1..Len(lexer.tokens) :
        LET t == lexer.tokens[i]
        IN  /\ t.lexeme = <<"o", "r">> => t.token_type = "ADDOP"
            /\ t.lexeme \in {<<"r", "e", "m">>, <<"m", "o", "d">>, <<"a", "n", "d">>}
                  => t.token_type = "MULOP"

\* C3: when the ID pattern matches a word whose upper-cased text is a key of
\* reserved_words, the iteration appends one token with that word as lexeme and
\* the mapped kind; and no token of kind ID has a reserved lexeme.
C3_ReservedFold ==
    /\ [][AtWord /\ Str(Upper(WordAtCursor)) \in DOMAIN reserved_words =>
            /\ Len(lexer'.tokens) = Len(lexer.tokens) + 1
            /\ lexer'.tokens[Len(lexer'.tokens)].lexeme = WordAtCursor
            /\ lexer'.tokens[Len(lexer'.tokens)].token_type =
                  reserved_words[Str(Upper(WordAtCursor))]
            /\ lexer'.errors = lexer.errors]_vars
    /\ [](\A i \in 1..Len(lexer.tokens) :
            lexer.tokens[i].token_type = "ID" =>
                Str(Upper(lexer.tokens[i].lexeme)) \notin DOMAIN reserved_words)

\* a reserved word written in mixed case has been given its mapped kind
C3_Witness ==
    \E i \in 1..Len(lexer.tokens) :
        /\ lexer.tokens[i].lexeme = <<"I", "n", "t", "e", "g", "e", "r">>
        /\ lexer.tokens[i].token_type = "INTEGERT"

\* C4: no token of kind ID is longer than 17 characters; an iteration that meets
\* a word longer than that, not reserved, appends exactly one error for it,
\* appends no token and leaves the cursor right after the whole word.
C4_IdentifierBound ==
    /\ [][AtWord /\ Len(WordAtCursor) > 17
              /\ Str(Upper(WordAtCursor)) \notin DOMAIN reserved_words =>
            /\ lexer'.tokens = lexer.tokens
            /\ lexer'.errors =
                  Append(lexer.errors,
                         LexError("Identifier exceeds maximum length", WordAtCursor,
                                  MatchCursor.line, MatchCursor.column))
            /\ lexer'.pos = MatchCursor.pos + Len(WordAtCursor)
            /\ lexer'.status = "active"]_vars
    /\ [](\A i \in 1..Len(lexer.tokens) :
            lexer.tokens[i].token_type = "ID" => Len(lexer.tokens[i].lexeme) <= 17)

\* an over-long identifier was dropped and the token after it scanned
C4_Witness ==
    /\ lexer.status = "returned"
    /\ Len(lexer.errors) = 1
    /\ lexer.errors[1].msg = "Identifier exceeds maximum length"
    /\ Len(lexer.tokens) = 2
    /\ lexer.tokens[1].column_number = Len(lexer.errors[1].text) + 1

\* C8: with stop_on_error, analyze never returns after having recorded an error.
C8_HaltOnAnyError ==
    lexer.stop_on_error /\ lexer.status = "returned" => lexer.errors = <<>>

\* the messages of the errors after which a _process_* method raises
RaisingMessages ==
    {"Invalid number", "Invalid real number", "Unterminated string literal",
     "Unterminated character literal"}

\* no pattern of the table matches at the match cursor
NoPatternMatches ==
    \A i \in 1..Len(token_patterns) :
        token_patterns[i] \notin {"WHITESPACE", "COMMENT"} =>
            pattern_match(token_patterns[i], source, MatchCursor.pos) = -1

----------------------------------------------------------------------------
(* Claims about the parser and the view *)

\* a parse is over, by return or by the exception of report_error
ParseOver == parser.status \in {"returned", "raised"}

\* C5: in accumulate mode parse() returns true iff the scanner's tokens
\* without the final EOF are derivable from Prog, the identifier after END
\* being any identifier, and a sequence outside the language leaves at least
\* one recorded error.
C5_AcceptsTheLanguage ==
    (parser.status = "returned" /\ ~parser.stop_on_error) =>
        /\ parser.success <=> InLanguage(KindsOf(lexer.tokens))
        /\ ~InLanguage(KindsOf(lexer.tokens)) => Len(parser.errors) >= 1

\* a program is accepted whose identifier after END is not the procedure's name
C5_Witness ==
    /\ parser.status = "returned"
    /\ ~parser.stop_on_error
    /\ parser.success
    /\ Len(lexer.tokens) >= 8
    /\ lexer.tokens[2].token_type = "ID"
    /\ lexer.tokens[Len(lexer.tokens) - 2].token_type = "ID"
    /\ Upper(lexer.tokens[2].lexeme) # Upper(lexer.tokens[Len(lexer.tokens) - 2].lexeme)

\* the parse of the same tokens under the same flags and answers but with
\* build_parse_tree the other way
OtherBuild ==
    parse(RDParser(lexer.tokens, parser.stop_on_error, parser.panic_mode_recover,
                   ~parser.build_parse_tree),
          parser.answers)

\* two finished parses agree in what a caller observes
SameOutcome(p, q) ==
    /\ p.status = q.status
    /\ p.errors = q.errors
    /\ p.success = q.success
    /\ p.current_index = q.current_index
    /\ p.current_token = q.current_token

\* C6: with build_parse_tree true and false, all else equal, the parser ends
\* with the same error list, the same success flag and the same cursor.
C6_TreeBuildingUnobservable == ParseOver => SameOutcome(parser, OtherBuild)

\* a tree-building parse has consumed tokens and has recorded errors
C6_Witness ==
    /\ parser.status = "returned"
    /\ parser.build_parse_tree
    /\ Len(parser.nodes) > 3
    /\ parser.current_index > 3
    /\ Len(parser.errors) > 0

\* the view has answered a request whose text it analysed
Answered == driver = "view" /\ response # None /\ parser.status = "returned"

\* C7: the success flag of the view's response is true iff the scanner's
\* error list is empty, the parser's error list is empty and the parser
\* accepted; it is false whenever the scanner recorded an error.
C7_SuccessMeansNoErrors ==
    Answered =>
        (response[1].success <=>
            (lexer.errors = <<>> /\ parser.errors = <<>> /\ parser.success))

\* C10 as stated: with stop_on_error the error list never holds more than one
\* entry, and no token is consumed once an error is recorded.
C10_CeasesAtFirstError ==
    /\ [](parser.status # "none" /\ parser.stop_on_error => Len(parser.errors) <= 1)
    /\ [][(parser.status = "parsing" /\ parser.stop_on_error /\ parser.errors # <<>>)
            => parser'.current_index = parser.current_index]_vars

\* the same tokens parsed in accumulate mode
Accumulating ==
    parse(RDParser(lexer.tokens, FALSE, parser.panic_mode_recover, parser.build_parse_tree),
          <<>>)

\* C10, amended: with stop_on_error every recorded error puts the prompt to
\* the user once, and parsing ceases exactly when the answer is y or Y: the
\* parse then ends by the exception, the error just recorded is the last,
\* and the cursor stays on the token it was reported at.  After any other
\* answer parsing goes on, and a parse that returns has recorded the errors
\* and consumed the tokens of accumulate mode.
C10_CeasesWhenToldTo ==
    (parser.status # "none" /\ parser.stop_on_error) =>
        /\ Len(parser.answers) = Len(parser.errors)
        /\ \A i \in 1..(Len(parser.answers) - 1) : ~SaysYes(parser.answers[i])
        /\ parser.status = "raised" <=>
              (parser.answers # <<>> /\ SaysYes(parser.answers[Len(parser.answers)]))
        /\ parser.status = "raised" =>
              /\ parser.errors[Len(parser.errors)].line = parser.current_token.line_number
              /\ parser.errors[Len(parser.errors)].column = parser.current_token.column_number
              /\ parser.errors[Len(parser.errors)].found = parser.current_token.lexeme
        /\ parser.status = "returned" => SameOutcome(parser, Accumulating)

\* the user lets the first error pass and stops the parse at a later one
C10_Witness ==
    /\ parser.status = "raised"
    /\ parser.stop_on_error
    /\ Len(parser.errors) >= 2
    /\ parser.current_index > 0

\* the statement about to run is a match or match_leaf
MatchPending ==
    /\ parser.status = "parsing"
    /\ Head(parser.stack).op \in {"match", "match_leaf"}

\* the match about to run finds another kind than it expects
Mismatch == MatchPending /\ EffectiveType(parser.current_token) # Head(parser.stack).kind

\* synchronisation sets a caller of panic_recovery may pass
SyncSets == {{"SEMICOLON"}, {"BEGIN", "END", "PROCEDURE", "IS"}}

\* C11: with panic_mode_recover a mismatch in match consumes tokens until the
\* current token is in the synchronisation set or is EOF: after the mismatch
\* panic_recovery would have nothing left to skip.
C11_PanicSkipsToSync ==
    [][(Mismatch /\ parser.panic_mode_recover) =>
          \A sync_set \in SyncSets :
              /\ parser'.current_token.token_type \in sync_set \cup {"EOF"}
              /\ panic_recovery(parser', sync_set).current_index = parser'.current_index]_vars

\* what the user typed at the prompt of the step taken, "n" if nothing was asked
LastChoice ==
    IF Len(parser'.answers) > Len(parser.answers)
    THEN parser'.answers[Len(parser'.answers)]
    ELSE "n"

\* the token after the current one, as advance sets it
NextToken ==
    IF parser.current_index + 1 < Len(parser.tokens)
    THEN parser.tokens[parser.current_index + 2]
    ELSE Token("EOF", <<"E", "O", "F">>, -1, -1, None, None, None)

\* C12: with panic recovery disabled a mismatch in match or match_leaf appends
\* exactly one error carrying the current token's line and column and leaves
\* the cursor and the parse tree as they were; a successful match advances
\* the cursor by exactly one token and appends no error.
C12_MatchFrame ==
    [][(MatchPending /\ ~parser.panic_mode_recover) =>
          LET matched == Exec(parser, LastChoice)
          IN  /\ parser' = ParserStep(parser, LastChoice)
              /\ IF Mismatch
                 THEN /\ Len(parser'.errors) = Len(parser.errors) + 1
                      /\ SubSeq(parser'.errors, 1, Len(parser.errors)) = parser.errors
                      /\ parser'.errors[Len(parser'.errors)].line =
                             parser.current_token.line_number
                      /\ parser'.errors[Len(parser'.errors)].column =
                             parser.current_token.column_number
                      /\ parser'.current_index = parser.current_index
                      /\ parser'.current_token = parser.current_token
                      /\ matched.nodes = parser.nodes
                      /\ matched.parse_tree_root = parser.parse_tree_root
                      /\ Len(parser'.nodes) = Len(parser.nodes)
                 ELSE /\ parser'.errors = parser.errors
                      /\ parser'.current_index = parser.current_index + 1
                      /\ parser'.current_token = NextToken]_vars

\* a tree-building parse with recovery disabled has matched tokens and has
\* then met a mismatch, reported where the cursor still stands
C12_Witness ==
    /\ parser.status = "parsing"
    /\ ~parser.panic_mode_recover
    /\ parser.build_parse_tree
    /\ parser.current_index > 0
    /\ parser.errors # <<>>
    /\ parser.errors[Len(parser.errors)].msg = "Expected"
    /\ parser.errors[Len(parser.errors)].line = parser.current_token.line_number
    /\ parser.errors[Len(parser.errors)].column = parser.current_token.column_number

\* the line of offset off of the text: 1 + the newlines before it
LineAt(src, off) == 1 + CountNewlines(Slice(src, 0, off))

\* the column of offset off: 1 + the characters since the preceding newline
ColumnAt(src, off) == 1 + LastLineLen(Slice(src, 0, off))

\* a token or a scanner error is placed at offset off
PlacedAt(item, line, column, off) ==
    /\ line = LineAt(source, off)
    /\ column = ColumnAt(source, off)

\* C13: every emitted token, EOF included, and every recorded scanner error
\* carries the line and column of its start offset in the source, also after
\* a skipped unterminated string, a skipped identifier or an unrecognised
\* character.
C13_PositionsExact ==
    [][/\ (lexer.status = "active" /\ Len(lexer'.tokens) > Len(lexer.tokens)
             /\ lexer'.status # "returned") =>
              LET token == lexer'.tokens[Len(lexer'.tokens)]
              IN  PlacedAt(token, token.line_number, token.column_number, MatchCursor.pos)
       /\ (lexer.status = "active" /\ Len(lexer'.errors) > Len(lexer.errors)) =>
              LET error == lexer'.errors[Len(lexer'.errors)]
              IN  PlacedAt(error, error.line, error.column, MatchCursor.pos)
       /\ (lexer.status = "active" /\ lexer'.status = "returned") =>
              LET eof_token == lexer'.tokens[Len(lexer'.tokens)]
              IN  PlacedAt(eof_token, eof_token.line_number, eof_token.column_number,
                           Len(source))]_vars

\* the offset of the first newline at or after off, the end of the text if none
LineEnd(src, off) ==
    IF \E k \in off..(Len(src) - 1) : At(src, k) = "\n"
    THEN CHOOSE k \in off..(Len(src) - 1) :
             At(src, k) = "\n" /\ \A j \in off..(k - 1) : At(src, j) # "\n"
    ELSE Len(src)

\* the match cursor is on a double quote that no double quote closes on its line
OpenQuoteAtCursor ==
    /\ AtMatch
    /\ At(source, MatchCursor.pos) = "\""
    /\ \A k \in (MatchCursor.pos + 1)..(LineEnd(source, MatchCursor.pos) - 1) :
           At(source, k) # "\""

\* C14: on a double quote with no closing double quote before the next newline
\* (or the end of input) the scanner records exactly one unterminated-string
\* error, emits no token, moves the cursor exactly to that newline (or the end
\* of input) and goes on scanning.
C14_UnterminatedSkipped ==
    [][OpenQuoteAtCursor =>
          /\ Len(lexer'.errors) = Len(lexer.errors) + 1
          /\ SubSeq(lexer'.errors, 1, Len(lexer.errors)) = lexer.errors
          /\ lexer'.errors[Len(lexer'.errors)].msg = "Unterminated string literal"
          /\ lexer'.tokens = lexer.tokens
          /\ lexer'.pos = LineEnd(source, MatchCursor.pos)
          /\ lexer'.status = "active"]_vars

\* an unterminated string has been skipped and the cursor is on the newline
\* that ends its line
C14_Witness ==
    /\ lexer.status = "active"
    /\ source # <<>>
    /\ source[1] = "\""
    /\ lexer.pos > 0
    /\ At(source, lexer.pos) = "\n"
    /\ lexer.tokens = <<>>
    /\ Len(lexer.errors) = 1
    /\ lexer.errors[1].msg = "Unterminated string literal"

\* a token without its position
TokenContent(token) ==
    [token_type |-> token.token_type, lexeme |-> token.lexeme, value |-> token.value,
     real_value |-> token.real_value, literal_value |-> token.literal_value]

\* the tokens of a list from the n-th on, without their positions
ContentsFrom(tokens, n) == [i \in 1..(Len(tokens) - n + 1) |-> TokenContent(tokens[n + i - 1])]

\* what an iteration that finds no match is to do: one unrecognised-character
\* error, one character forward on the same line, no token, and the rest of
\* the input scanned as if scanning had started right after the character
UnrecognisedStep ==
    /\ Len(lexer'.errors) = Len(lexer.errors) + 1
    /\ SubSeq(lexer'.errors, 1, Len(lexer.errors)) = lexer.errors
    /\ lexer'.errors[Len(lexer'.errors)].msg = "Unrecognized character"
    /\ lexer'.errors[Len(lexer'.errors)].text = <<At(source, MatchCursor.pos)>>
    /\ lexer'.tokens = lexer.tokens
    /\ lexer'.pos = MatchCursor.pos + 1
    /\ lexer'.line = MatchCursor.line
    /\ lexer'.column = MatchCursor.column + 1
    /\ lexer'.status = "active"
    /\ LET rest == AnalyzeRun(lexer', source)
           alone == analyze(LexicalAnalyzer(lexer.stop_on_error),
                            Slice(source, MatchCursor.pos + 1, Len(source)))
       IN  /\ rest.status = alone.status
           /\ ContentsFrom(rest.tokens, Len(lexer.tokens) + 1) = ContentsFrom(alone.tokens, 1)
           /\ Len(rest.errors) = Len(lexer'.errors) + Len(alone.errors)

\* C15 as stated: whenever no pattern matches at the cursor the scanner takes
\* the unrecognised-character step.
C15_NoMatchIsUnrecognised ==
    [][(AtMatch /\ NoPatternMatches) => UnrecognisedStep]_vars

\* C15, amended: whenever no pattern matches at the cursor, and the cursor is
\* not on a double quote left unclosed on its line (which the scanner skips as
\* an unterminated string instead), the scanner records exactly one
\* unrecognised-character error, advances by exactly one character on the same
\* line, emits no token and goes on; the tokens of the rest of the input are
\* those of a scan started right after the character.
C15_UnrecognisedSkipped ==
    [][(AtMatch /\ NoPatternMatches /\ ~OpenQuoteAtCursor) => UnrecognisedStep]_vars

\* an unrecognised character has been stepped over with input left to scan
C15_Witness ==
    /\ lexer.status = "active"
    /\ lexer.errors # <<>>
    /\ lexer.errors[Len(lexer.errors)].msg = "Unrecognized character"
    /\ lexer.pos < Len(source)
    /\ lexer.pos > 0
    /\ <<At(source, lexer.pos - 1)>> = lexer.errors[Len(lexer.errors)].text
    /\ At(source, lexer.pos) \in Letters


----------------------------------------------------------------------------
(* Claims about the whole run                                                *)

IsPrefix(a, b) == Len(a) <= Len(b) /\ SubSeq(b, 1, Len(a)) = a

\* the response to a text that went through both phases
Responded == response # None /\ parser.status = "returned"

\* C16: the error list of the response is the scanner's errors followed by the
\* parser's errors, each phase's in the order recorded; no parser error comes
\* before a scanner error; and the error list of each phase only grows by
\* appending.
C16_ErrorsInPhaseOrder ==
    /\ [](Responded =>
            LET errors == response[1].errors
                n == Len(lexer.errors)
            IN  /\ Len(errors) = n + Len(parser.errors)
                /\ \A i \in 1..n :
                       errors[i] = [phase |-> "lexer", error |-> lexer.errors[i]]
                /\ \A j \in 1..Len(parser.errors) :
                       errors[n + j] = [phase |-> "parser", error |-> parser.errors[j]]
                /\ \A i, j \in 1..Len(errors) :
                       (errors[i].phase = "parser" /\ errors[j].phase = "lexer") => j < i)
    /\ [][/\ IsPrefix(lexer.errors, lexer'.errors)
          /\ parser.status # "none" => IsPrefix(parser.errors, parser'.errors)]_vars

\* a response that lists errors of both phases, several of the parser's
C16_Witness ==
    /\ Responded
    /\ Len(lexer.errors) >= 1
    /\ Len(parser.errors) >= 2
    /\ Len(response[1].errors) >= 3


\* parse is about to check the current token after parseProg has returned
ParseEndPending == parser.status = "parsing" /\ Head(parser.stack).op = "parse_end"

ExtraTokens == "Extra tokens found after program end."

\* how many of the errors report extra tokens
ExtraReports(errors) == Cardinality({i \in 1..Len(errors) : errors[i].msg = ExtraTokens})

\* C17: after parseProg has returned, parse looks at the current token once,
\* without consuming anything: when it is not EOF exactly one 'Extra tokens
\* found after program end.' error is appended, however many tokens are left,
\* and when it is EOF none is; no other step records that error.
C17_ExtraTokensOnce ==
    /\ [][IF ParseEndPending
          THEN /\ parser'.current_index = parser.current_index
               /\ parser'.current_token = parser.current_token
               /\ IF parser.current_token.token_type # "EOF"
                  THEN /\ Len(parser'.errors) = Len(parser.errors) + 1
                       /\ IsPrefix(parser.errors, parser'.errors)
                       /\ parser'.errors[Len(parser'.errors)].msg = ExtraTokens
                  ELSE parser'.errors = parser.errors
          ELSE (parser.status = "parsing" /\ driver = driver') =>
                   ExtraReports(parser'.errors) = ExtraReports(parser.errors)]_vars
    /\ [](/\ parser.status = "parsing" => ExtraReports(parser.errors) = 0
          /\ parser.status = "returned" =>
                 ExtraReports(parser.errors) =
                     IF parser.current_token.token_type # "EOF" THEN 1 ELSE 0)

\* a parse has returned with the error recorded while several tokens were left
\* before EOF
C17_Witness ==
    /\ parser.status = "returned"
    /\ Len(parser.tokens) - parser.current_index >= 4
    /\ parser.tokens[parser.current_index + 2].token_type # "EOF"
    /\ parser.tokens[parser.current_index + 3].token_type # "EOF"
    /\ ExtraReports(parser.errors) = 1
    /\ parser.errors[Len(parser.errors)].msg = ExtraTokens


\* the main loop of analyze is about to run an iteration
IterationPending == lexer.status = "active" /\ lexer.pos < Len(source)

\* C18: on every source text analyze terminates, each iteration of its main
\* loop moving the cursor strictly forward (and never past the end of the
\* text), the skip and error paths included; and the parse of the resulting
\* token list, errors being accumulated, terminates.
C18_PhasesTerminate ==
    /\ [][IterationPending =>
              /\ lexer'.pos > lexer.pos
              /\ lexer'.pos <= Len(source)]_vars
    /\ (lexer.status = "active" /\ source # <<>>) ~> (lexer.status = "returned")
    /\ (parser.status = "parsing" /\ ~parser.stop_on_error) ~> (parser.status = "returned")
    /\ <>(response # None)

\* both phases have run to their end on a text where the scanner skipped an
\* unterminated string and the parser recorded errors
C18_Witness ==
    /\ lexer.status = "returned"
    /\ parser.status = "returned"
    /\ \E i \in 1..Len(lexer.errors) : lexer.errors[i].msg = "Unterminated string literal"
    /\ Len(lexer.tokens) >= 2
    /\ Len(parser.errors) >= 1


lower_table ==
    [c \in {UpperLetters[i] : i \in 1..26} |->
        LowerLetters[CHOOSE i \in 1..26 : UpperLetters[i] = c]]

LowerChar(c) == IF c \in DOMAIN lower_table THEN lower_table[c] ELSE c

\* the ways a word is written anew
Styles == {"upper", "lower", "title", "inverted"}

\* word written in the given style
Styled(word, style) ==
    [i \in 1..Len(word) |->
        CASE style = "upper" -> UpperChar(word[i])
          [] style = "lower" -> LowerChar(word[i])
          [] style = "title" -> IF i = 1 THEN UpperChar(word[i]) ELSE LowerChar(word[i])
          [] OTHER -> IF word[i] \in DOMAIN upper_table THEN UpperChar(word[i])
                      ELSE LowerChar(word[i])]

\* a reserved word or operator keyword, however it is written
IsKeyword(word) == Str(Upper(word)) \in DOMAIN reserved_words

RECURSIVE RecaseFrom(_, _, _, _, _, _)
\* src from offset p on with its words rewritten in the given style: the
\* keywords when keywords is TRUE, the other words when it is FALSE; only the
\* word numbered `only` among them, counting from k, or all of them when only = 0
RecaseFrom(src, p, style, keywords, only, k) ==
    IF p >= Len(src) THEN <<>>
    ELSE IF src[p + 1] \notin WordChars
         THEN <<src[p + 1]>> \o RecaseFrom(src, p + 1, style, keywords, only, k)
    ELSE LET e == RunEnd(src, p, WordChars)
             word == Slice(src, p, e)
             chosen == IsKeyword(word) = keywords
         IN  (IF chosen /\ only \in {0, k} THEN Styled(word, style) ELSE word)
             \o RecaseFrom(src, e, style, keywords, only, IF chosen THEN k + 1 ELSE k)

\* how many words of src are keywords
KeywordCount(src) ==
    Cardinality({p \in 0..(Len(src) - 1) :
                    /\ src[p + 1] \in WordChars
                    /\ At(src, p - 1) \notin WordChars
                    /\ IsKeyword(Slice(src, p, RunEnd(src, p, WordChars)))})

\* src with all its keywords, or one of them, written in another case
KeywordVariants(src) ==
    {RecaseFrom(src, 0, style, TRUE, only, 1) :
        style \in Styles, only \in 0..KeywordCount(src)}

\* src with the words that are not keywords written in the inverted case
IdentifierVariant(src) == RecaseFrom(src, 0, "inverted", FALSE, 0, 1)

\* what the claim compares: the kinds of the tokens, the count of the
\* scanner's errors, the parser's success flag and the count of its errors
Outcome(lx, ps) ==
    [kinds |-> KindsOf(lx.tokens), lexical_errors |-> Len(lx.errors),
     success |-> ps.success, errors |-> Len(ps.errors)]

\* the outcome of scanning and parsing text as process_code_view does
OutcomeOfScan(lx) == Outcome(lx, parse(RDParser(lx.tokens, FALSE, FALSE, TRUE), <<>>))

OutcomeOf(text) == OutcomeOfScan(analyze(LexicalAnalyzer(FALSE), text))

\* the lexemes of the tokens of kind ID, in order
IdentifierLexemes(tokens) ==
    LET ids == SelectSeq(tokens, LAMBDA token : token.token_type = "ID")
    IN  [i \in 1..Len(ids) |-> ids[i].lexeme]

\* C19: writing the reserved words and operator keywords of the source in
\* another case, all of them or any one of them, changes neither the kinds of
\* the tokens nor the parser's success flag nor the number of errors, and
\* leaves the lexemes of the identifiers as they are; writing the identifiers in
\* another case leaves the kinds as they are and gives each identifier the
\* lexeme written, not a folded one.
C19_CaseInvariant ==
    Responded =>
        /\ \A text \in KeywordVariants(source) :
               /\ OutcomeOf(text) = Outcome(lexer, parser)
               /\ IdentifierLexemes(analyze(LexicalAnalyzer(FALSE), text).tokens) =
                      IdentifierLexemes(lexer.tokens)
        /\ LET other == analyze(LexicalAnalyzer(FALSE), IdentifierVariant(source)).tokens
               ids == IdentifierLexemes(lexer.tokens)
           IN  /\ KindsOf(other) = KindsOf(lexer.tokens)
               /\ IdentifierLexemes(other) =
                      [i \in 1..Len(ids) |-> Styled(ids[i], "inverted")]
               /\ \A i \in 1..Len(ids) : IdentifierLexemes(other)[i] # ids[i]

\* a text with a reserved word, an operator keyword and an identifier has been
\* scanned and parsed, and has several other spellings
C19_Witness ==
    /\ Responded
    /\ \E i \in 1..Len(lexer.tokens) : lexer.tokens[i].token_type \in {"OR", "MOD"}
    /\ \E i \in 1..Len(lexer.tokens) : lexer.tokens[i].token_type = "PROCEDURE"
    /\ \E i \in 1..Len(lexer.tokens) : lexer.tokens[i].token_type = "ID"
    /\ Cardinality(KeywordVariants(source) \ {source}) >= 4
    /\ IdentifierVariant(source) # source


RECURSIVE PairsOnly(_)
\* every double quote of body is one of a doubled pair
PairsOnly(body) ==
    IF body = <<>> THEN TRUE
    ELSE IF body[1] = "\""
         THEN Len(body) >= 2 /\ body[2] = "\"" /\ PairsOnly(SubSeq(body, 3, Len(body)))
    ELSE PairsOnly(Tail(body))

\* s is a well-formed string literal: an opening quote, a body without newline
\* whose double quotes are doubled pairs, a closing quote
WellFormedLiteral(s) ==
    /\ Len(s) >= 2
    /\ s[1] = "\""
    /\ s[Len(s)] = "\""
    /\ \A i \in 1..Len(s) : s[i] # "\n"
    /\ PairsOnly(SubSeq(s, 2, Len(s) - 1))

RECURSIVE Doubled(_)
\* text with each double quote written twice
Doubled(text) ==
    IF text = <<>> THEN <<>>
    ELSE (IF text[1] = "\"" THEN <<"\"", "\"">> ELSE <<text[1]>>) \o Doubled(Tail(text))

\* the string literal that denotes text
Encode(text) == <<"\"">> \o Doubled(text) \o <<"\"">>

\* C20: for a source that is one well-formed string literal the scanner does
\* not raise and returns exactly one token before EOF, of kind LITERAL, with
\* the source as lexeme and no error, and its decoded value written back as a
\* literal (each double quote doubled, quotes added around) is the source.
C20_LiteralRoundTrip ==
    WellFormedLiteral(source) =>
        /\ lexer.status # "raised"
        /\ lexer.status = "returned" =>
              /\ Len(lexer.tokens) = 2
              /\ lexer.tokens[1].token_type = "LITERAL"
              /\ lexer.tokens[1].lexeme = source
              /\ lexer.errors = <<>>
              /\ lexer.tokens[1].literal_value # None
              /\ Encode(lexer.tokens[1].literal_value[1]) = source

\* a well-formed literal whose value holds a double quote has been scanned
C20_Witness ==
    /\ lexer.status = "returned"
    /\ WellFormedLiteral(source)
    /\ Len(lexer.tokens) = 2
    /\ lexer.tokens[1].literal_value # None
    /\ \E i \in 1..Len(lexer.tokens[1].literal_value[1]) :
           lexer.tokens[1].literal_value[1][i] = "\""


----------------------------------------------------------------------------
(* Claims about repeated calls, token payloads and the tables                *)

\* C21: analyze is a function of the source and the flags alone: whatever
\* calls the object has served before, a call that is over has left the status,
\* the token list and the error list that a fresh object gives for the same
\* source and flag, and the parse of those tokens has the same success flag.
C21_PureFunctions ==
    lexer.status \in {"returned", "raised"} =>
        LET fresh == analyze(LexicalAnalyzer(lexer.stop_on_error), source)
        IN  /\ lexer.status = fresh.status
            /\ lexer.tokens = fresh.tokens
            /\ lexer.errors = fresh.errors
            /\ lexer.status = "returned" =>
                   parse(RDParser(lexer.tokens, FALSE, FALSE, TRUE), <<>>).success =
                       parse(RDParser(fresh.tokens, FALSE, FALSE, TRUE), <<>>).success


\* the payload fields of token that are set
PayloadSet(token) ==
    {f \in {"value", "real_value", "literal_value"} : token[f] # None}

\* the payload field that belongs to a kind
PayloadOf(token_type) ==
    CASE token_type = "NUM" -> {"value"}
      [] token_type = "REAL" -> {"real_value"}
      [] token_type \in {"LITERAL", "CHAR_LITERAL"} -> {"literal_value"}
      [] OTHER -> {}

\* C22: every token the scanner has emitted has the payload field of its kind
\* set and the other payload fields empty: value for NUM, real_value for REAL,
\* literal_value for LITERAL and CHAR_LITERAL, none for the other kinds.
C22_PayloadOfKind ==
    \A i \in 1..Len(lexer.tokens) :
        PayloadSet(lexer.tokens[i]) = PayloadOf(lexer.tokens[i].token_type)


\* the kinds given by the pattern table and the end of input, not by a word
StructuralKinds == {token_patterns[i] : i \in 1..Len(token_patterns)} \cup {"EOF"}

\* the reserved spellings mapped to a kind
SpellingsOf(token_type) == {w \in DOMAIN reserved_words : reserved_words[w] = token_type}

\* C23: no two keys of reserved_words are mapped to the same kind and none is
\* mapped to a kind of the pattern table or to EOF; so the kind of a token made
\* from a reserved word has one spelling, the upper-cased lexeme of the token.
C23_ReservedInjective ==
    /\ \A w1, w2 \in DOMAIN reserved_words :
           reserved_words[w1] = reserved_words[w2] => w1 = w2
    /\ \A w \in DOMAIN reserved_words :
           /\ reserved_words[w] \in TokenType
           /\ reserved_words[w] \notin StructuralKinds
    /\ \A i \in 1..Len(lexer.tokens) :
           Str(Upper(lexer.tokens[i].lexeme)) \in DOMAIN reserved_words =>
               SpellingsOf(lexer.tokens[i].token_type) =
                   {Str(Upper(lexer.tokens[i].lexeme))}

\* a reserved word written in lower case has been scanned into a token whose
\* kind has that word alone as spelling
C23_Witness ==
    /\ lexer.status = "returned"
    /\ \E i \in 1..Len(lexer.tokens) :
           /\ lexer.tokens[i].lexeme # Upper(lexer.tokens[i].lexeme)
           /\ Str(Upper(lexer.tokens[i].lexeme)) \in DOMAIN reserved_words
           /\ SpellingsOf(lexer.tokens[i].token_type) = {Str(Upper(lexer.tokens[i].lexeme))}


RECURSIVE FirstSignificant(_, _)
\* the first offset from p on that is neither whitespace nor inside a comment
\* (a comment runs from -- to the next newline, which it leaves), or the end
FirstSignificant(src, p) ==
    IF p >= Len(src) THEN Len(src)
    ELSE IF src[p + 1] \in WhitespaceChars THEN FirstSignificant(src, p + 1)
    ELSE IF LiteralAt(src, p, <<"-", "-">>)
         THEN FirstSignificant(src, IF Find(src, "\n", p) = -1 THEN Len(src)
                                    ELSE Find(src, "\n", p))
    ELSE p

\* the line and column of offset start for a cursor that stands at lexer.pos
\* with lexer.line and lexer.column
LineFromCursor(start) == lexer.line + CountNewlines(Slice(source, lexer.pos, start))

ColumnFromCursor(start) ==
    IF CountNewlines(Slice(source, lexer.pos, start)) > 0
    THEN LastLineLen(Slice(source, lexer.pos, start)) + 1
    ELSE lexer.column + (start - lexer.pos)

\* C24: an iteration of analyze first passes all whitespace and comments at the
\* cursor, however they alternate, a comment ending before its newline: when
\* only such text is left the iteration ends at the end of the source with no
\* token and no error; otherwise what it matches, skips or reports starts at the
\* first character that is neither whitespace nor the start of a comment, so no
\* token starts at whitespace or at --, and a token - is never the first half
\* of --.
C24_BlanksSkippedFirst ==
    [][IterationPending =>
          LET start == FirstSignificant(source, lexer.pos)
              n == Len(lexer.tokens)
              e == Len(lexer.errors)
          IN  IF start >= Len(source)
              THEN /\ lexer'.pos = Len(source)
                   /\ lexer'.tokens = lexer.tokens
                   /\ lexer'.errors = lexer.errors
              ELSE /\ At(source, start) \notin WhitespaceChars
                   /\ ~LiteralAt(source, start, <<"-", "-">>)
                   /\ lexer'.status = "active" => lexer'.pos > start
                   /\ Len(lexer'.tokens) > n =>
                          /\ Len(lexer'.tokens) = n + 1
                          /\ lexer'.tokens[n + 1].lexeme = Slice(source, start, lexer'.pos)
                          /\ lexer'.tokens[n + 1].line_number = LineFromCursor(start)
                          /\ lexer'.tokens[n + 1].column_number = ColumnFromCursor(start)
                          /\ lexer'.tokens[n + 1].lexeme = <<"-">> =>
                                 At(source, start + 1) # "-"
                   /\ Len(lexer'.errors) > e =>
                          /\ lexer'.errors[e + 1].line = LineFromCursor(start)
                          /\ lexer'.errors[e + 1].column = ColumnFromCursor(start)]_vars

\* a token has been matched on the line after a comment that the iteration
\* passed together with its newline
C24_Witness ==
    /\ LiteralAt(source, 0, <<"-", "-">>)
    /\ Len(lexer.tokens) >= 1
    /\ lexer.tokens[1].token_type # "EOF"
    /\ lexer.tokens[1].line_number = 2
    /\ lexer.tokens[1].column_number = 1


----------------------------------------------------------------------------
(* Claims about the pattern table and the literals                           *)

\* the patterns tried for a token, in table order, that match at the cursor
MatchingPatterns ==
    {i \in 1..Len(token_patterns) :
        /\ token_patterns[i] \notin {"WHITESPACE", "COMMENT"}
        /\ pattern_match(token_patterns[i], source, MatchCursor.pos) # -1}

\* the first of them
FirstMatching == CHOOSE i \in MatchingPatterns : \A j \in MatchingPatterns : i <= j

\* the iteration has appended exactly one token, of the given kind, whose
\* lexeme is the text from the match cursor to offset match_end
Emitted(token_type, match_end) ==
    /\ Len(lexer'.tokens) = Len(lexer.tokens) + 1
    /\ lexer'.tokens[Len(lexer'.tokens)].token_type = token_type
    /\ lexer'.tokens[Len(lexer'.tokens)].lexeme = Slice(source, MatchCursor.pos, match_end)
    /\ lexer'.pos = match_end

\* the text w stands at the match cursor
CursorAt(w) == AtMatch /\ LiteralAt(source, MatchCursor.pos, w)

\* the end of the digits that start at the match cursor
DigitsEnd == RunEnd(source, MatchCursor.pos, Digits)

\* C25: the first pattern of the table that matches at the cursor decides the
\* token: a token appended by an iteration has as lexeme the match of that
\* pattern (and its kind, unless it is a word); and on the overlapping texts the
\* order gives the longest token: digits . digits is one REAL, := one ASSIGN,
\* <= >= /= one RELOP each, digits before a . that no digit follows a NUM that
\* ends at the ., and a . a DOT.
C25_FirstPatternWins ==
    [][AtMatch =>
          /\ (MatchingPatterns # {} /\ ~OpenQuoteAtCursor /\ Len(lexer'.tokens) > Len(lexer.tokens)) =>
                 /\ lexer'.pos = pattern_match(token_patterns[FirstMatching], source,
                                               MatchCursor.pos)
                 /\ lexer'.tokens[Len(lexer'.tokens)].lexeme =
                        Slice(source, MatchCursor.pos, lexer'.pos)
                 /\ token_patterns[FirstMatching] # "ID" =>
                        lexer'.tokens[Len(lexer'.tokens)].token_type =
                            token_patterns[FirstMatching]
          /\ (At(source, MatchCursor.pos) \in Digits /\ At(source, DigitsEnd) = "."
                  /\ At(source, DigitsEnd + 1) \in Digits) =>
                 Emitted("REAL", RunEnd(source, DigitsEnd + 1, Digits))
          /\ (At(source, MatchCursor.pos) \in Digits
                  /\ ~(At(source, DigitsEnd) = "." /\ At(source, DigitsEnd + 1) \in Digits)) =>
                 Emitted("NUM", DigitsEnd)
          /\ CursorAt(<<".">>) => Emitted("DOT", MatchCursor.pos + 1)
          /\ CursorAt(<<":", "=">>) => Emitted("ASSIGN", MatchCursor.pos + 2)
          /\ \A c \in {"<", ">", "/"} :
                 CursorAt(<<c, "=">>) => Emitted("RELOP", MatchCursor.pos + 2)]_vars

\* digits . digits has been scanned into one token
C25_Witness ==
    /\ lexer.status = "returned"
    /\ Len(lexer.tokens) = 2
    /\ lexer.tokens[1].token_type = "REAL"
    /\ lexer.tokens[1].lexeme = <<"1", ".", "5">>


----------------------------------------------------------------------------
(* Claims about the parse tree and the parser's progress                     *)

\* the node a pending call of node n will hand back to it, as a sequence
PendingChildren(p, n) ==
    LET waiting == SelectSeq(p.stack, LAMBDA i : i.op = "add_child" /\ i.node = n)
    IN  [k \in 1..Len(waiting) |-> waiting[k].child]

RECURSIVE TokenLeaves(_, _, _)
RECURSIVE LeavesOfAll(_, _, _)
\* the tokens of the leaves under node n, depth first, left to right; with
\* pending, the node of a call that has not returned yet counts as the last
\* child of the node that waits for it
TokenLeaves(p, n, pending) ==
    IF p.nodes[n].token # None THEN <<p.nodes[n].token[1]>>
    ELSE LeavesOfAll(p, p.nodes[n].children \o
                        (IF pending THEN PendingChildren(p, n) ELSE <<>>), pending)

LeavesOfAll(p, children, pending) ==
    IF children = <<>> THEN <<>>
    ELSE TokenLeaves(p, Head(children), pending) \o LeavesOfAll(p, Tail(children), pending)

\* the tokens consumed so far
Consumed == SubSeq(parser.tokens, 1, parser.current_index)

\* a tree is being built or has been built: the node of the outermost parseProg
\* exists
TreeBegun ==
    /\ parser.status \in {"parsing", "returned"}
    /\ parser.build_parse_tree
    /\ parser.nodes # <<>>

\* the method of node n has returned
Finished(n) == \A k \in 1..Len(parser.stack) : parser.stack[k].node # n

\* the names of the nonterminals that have an empty alternative, and the name
\* of the first child of their other alternative
FirstOfAlternative ==
    [DeclarativePart |-> {"IdentifierList"}, Procedures |-> {"Prog"},
     Args |-> {"LPAREN"}, MoreArgs |-> {"SEMICOLON"}, Mode |-> {"IN", "OUT", "INOUT"},
     SeqOfStatements |-> {}]

IsEpsilonLeaf(n) == parser.nodes[n] = ParseTreeNode("ε", None)

\* a returned nonterminal with an empty alternative has either taken it, and
\* then has one child, a leaf named ε without token, or has taken the other,
\* and then has no ε child; and an ε node is always such a leaf
EpsilonChildren ==
    \A n \in 1..Len(parser.nodes) :
        LET node == parser.nodes[n]
        IN  /\ node.name = "ε" => IsEpsilonLeaf(n)
            /\ (node.name \in DOMAIN FirstOfAlternative /\ Finished(n)) =>
                   \/ Len(node.children) = 1 /\ IsEpsilonLeaf(node.children[1])
                   \/ /\ node.children # <<>>
                      /\ parser.nodes[node.children[1]].name \in FirstOfAlternative[node.name]
                      /\ \A k \in 1..Len(node.children) : ~IsEpsilonLeaf(node.children[k])

\* after a successful parse every leaf without token is an ε leaf and the token
\* leaves of the tree are all the tokens but EOF
SuccessfulTree ==
    (parser.status = "returned" /\ parser.success) =>
        /\ \A n \in 1..Len(parser.nodes) :
               (parser.nodes[n].token = None /\ parser.nodes[n].children = <<>>) =>
                   parser.nodes[n].name = "ε"
        /\ TokenLeaves(parser, parser.parse_tree_root, FALSE) =
               SubSeq(parser.tokens, 1, Len(parser.tokens) - 1)

\* C26 as stated: at every point of a tree-building parse the token leaves
\* under the outermost node are the tokens consumed so far; the ε alternatives
\* leave one ε leaf; a successful parse leaves the tokens without EOF as leaves.
C26_LeavesAtEveryPoint ==
    TreeBegun =>
        /\ TokenLeaves(parser, 1, FALSE) = Consumed
        /\ EpsilonChildren
        /\ SuccessfulTree

\* C26, amended: at every point of a tree-building parse the tokens consumed
\* so far are the token leaves of the nodes built so far, when the node of each
\* call that has not returned is read as the last child of the node waiting for
\* it; once parse has returned they are the token leaves of the tree itself;
\* the ε alternatives leave one ε leaf; a successful parse leaves the tokens
\* without EOF as leaves.
C26_LeavesOfNodesSoFar ==
    TreeBegun =>
        /\ TokenLeaves(parser, 1, TRUE) = Consumed
        /\ parser.status = "returned" =>
               /\ parser.parse_tree_root = 1
               /\ TokenLeaves(parser, 1, FALSE) = Consumed
        /\ EpsilonChildren
        /\ SuccessfulTree

\* tokens have been consumed inside a call that has not returned: they are
\* leaves of its node, which the outermost node does not hold yet
C26_Witness ==
    /\ TreeBegun
    /\ parser.status = "parsing"
    /\ parser.current_index >= 4
    /\ Len(TokenLeaves(parser, 1, FALSE)) < parser.current_index
    /\ \E n \in 1..Len(parser.nodes) : IsEpsilonLeaf(n)


\* the match cursor is on a single quote
SingleQuoteAtCursor == AtMatch /\ At(source, MatchCursor.pos) = "'"

\* C27: an opening single quote and one character at the end of input record
\* one unterminated-character-literal error and, errors being accumulated,
\* still give a CHAR_LITERAL token; an opening single quote, a character and
\* then a character that is not a single quote, before the end of input, match
\* no pattern: the quote is reported as an unrecognised character and no
\* CHAR_LITERAL token is emitted.
C27_UnterminatedCharLiteral ==
    [][SingleQuoteAtCursor =>
          /\ (MatchCursor.pos + 2 = Len(source)
                  /\ At(source, MatchCursor.pos + 1) \notin {"'", "\n"}) =>
                 /\ Len(lexer'.errors) = Len(lexer.errors) + 1
                 /\ lexer'.errors[Len(lexer'.errors)].msg = "Unterminated character literal"
                 /\ ~lexer.stop_on_error => Emitted("CHAR_LITERAL", Len(source))
          /\ (MatchCursor.pos + 2 < Len(source)
                  /\ At(source, MatchCursor.pos + 2) # "'") =>
                 /\ NoPatternMatches
                 /\ UnrecognisedStep]_vars


\* the statement about to run is the first match of the alternative that a
\* method has just chosen on the lookahead: the ID of the IdentifierList of a
\* DeclarativePart, the PROCEDURE of the Prog of a Procedures, the SEMICOLON of
\* a MoreArgs, or the COMMA of the loop of IdentifierList
FirstMatchOfAlternative ==
    /\ driver = "tokens"
    /\ parser.status = "parsing"
    /\ response # <<>>
    /\ Head(parser.stack).op \in {"match", "match_leaf"}
    /\ LET kind == Head(parser.stack).kind
           n == Len(response)
           here(k) == response[k].current_index = parser.current_index
       IN  \/ kind = "COMMA"
           \/ /\ kind = "ID" /\ n >= 2 /\ here(n) /\ here(n - 1)
              /\ response[n].method = "parseIdentifierList"
              /\ response[n - 1].method = "parseDeclarativePart"
           \/ /\ kind = "PROCEDURE" /\ n >= 2 /\ here(n) /\ here(n - 1)
              /\ response[n].method = "parseProg"
              /\ response[n - 1].method = "parseProcedures"
           \/ /\ kind = "SEMICOLON" /\ here(n)
              /\ response[n].method = "parseMoreArgs"

\* C28: on every token list that ends in EOF, made by the scanner or not, the
\* first match of a non-ε alternative chosen on the lookahead consumes a token,
\* and no parse method is entered twice at the same cursor position, also when
\* an ID token carries the lexeme of a reserved word.
C28_ParserProgress ==
    /\ [][FirstMatchOfAlternative => parser'.current_index = parser.current_index + 1]_vars
    /\ [](driver = "tokens" =>
              \A i \in 1..Len(response) : \A j \in 1..Len(response) :
                  i < j => response[i] # response[j])


\* the EOF token that ends the token list
LastToken == parser.tokens[Len(parser.tokens)]

\* the error e carries the line and column of the token t
ReportedAt(e, t) == e.line = t.line_number /\ e.column = t.column_number

\* C29: on a token list that ends with a single EOF token the parser never
\* advances past that EOF: current_index stays below the number of tokens, the
\* current token is always a token of the list (the EOF token made up by
\* advance, with position (-1, -1), never appears), every error carries the
\* 1-based line and column of a token of the list, and an error reported when
\* the current token is the EOF carries the position of that EOF token.
C29_NeverPastEOF ==
    /\ [](driver = "tokens" =>
              /\ parser.current_index < Len(parser.tokens)
              /\ parser.current_token = parser.tokens[parser.current_index + 1]
              /\ parser.current_token.line_number # -1
              /\ parser.current_token.column_number # -1
              /\ \A k \in 1..Len(parser.errors) :
                     /\ parser.errors[k].line >= 1
                     /\ parser.errors[k].column >= 1
                     /\ \E i \in 1..Len(parser.tokens) :
                            ReportedAt(parser.errors[k], parser.tokens[i]))
    /\ [][(driver = "tokens" /\ Len(parser'.errors) > Len(parser.errors)) =>
              /\ Len(parser'.errors) = Len(parser.errors) + 1
              /\ ReportedAt(parser'.errors[Len(parser'.errors)], parser.current_token)
              /\ parser.current_index + 1 = Len(parser.tokens) =>
                     /\ parser.current_token.token_type = "EOF"
                     /\ ReportedAt(parser'.errors[Len(parser'.errors)], LastToken)
                     /\ parser'.current_index = parser.current_index]_vars

\* a parse has returned with the cursor on the EOF token, after tokens were
\* consumed, and its last error was reported at the position of the EOF token
C29_Witness ==
    /\ driver = "tokens"
    /\ parser.status = "returned"
    /\ Len(parser.tokens) >= 4
    /\ parser.current_index + 1 = Len(parser.tokens)
    /\ parser.errors # <<>>
    /\ ReportedAt(parser.errors[Len(parser.errors)], LastToken)
    /\ parser.errors[Len(parser.errors)].msg = "Expected"


RECURSIVE QuotesPaired(_)
\* every double quote of the text is one of a doubled pair
QuotesPaired(text) ==
    IF text = <<>> THEN TRUE
    ELSE IF Head(text) # "\"" THEN QuotesPaired(Tail(text))
    ELSE Len(text) >= 2 /\ text[2] = "\"" /\ QuotesPaired(Tail(Tail(text)))

\* the lexeme is a string literal with its closing quote
ProperlyTerminated(lexeme) ==
    /\ Len(lexeme) >= 2
    /\ lexeme[1] = "\""
    /\ lexeme[Len(lexeme)] = "\""
    /\ \A k \in 1..Len(lexeme) : lexeme[k] # "\n"
    /\ QuotesPaired(SubSeq(lexeme, 2, Len(lexeme) - 1))

\* C30: every LITERAL token the scanner emits is a properly terminated string
\* literal: its lexeme starts with a double quote, ends with a closing double
\* quote that is not half of a doubled pair and holds no newline; so an opening
\* quote whose last quote before the end of input belongs to a doubled pair
\* gives no LITERAL token.
C30_LiteralsTerminated ==
    \A k \in 1..Len(lexer.tokens) :
        lexer.tokens[k].token_type = "LITERAL" => ProperlyTerminated(lexer.tokens[k].lexeme)

=============================================================================
